---- MODULE Spec2Model ----
(***************************************************************************)
(* Model of the ICG Dev Tools side-panel audit: the orchestrator            *)
(* SecurityAuditApp.runSecurityAudit with its checklist and report, and the *)
(* checkers it drives (UrlChecker, RobotsChecker, AnalyticsChecker,         *)
(* SSLChecker, MetaChecker, NonDeveloperChecker).                           *)
(*                                                                         *)
(* Host names are sequences of labels ("www.example.com" is                 *)
(* <<"www","example","com">>), URLs are records [scheme, host], report      *)
(* lines are records [t, a] of a fixed template t and its interpolated      *)
(* argument a.                                                             *)
(***************************************************************************)
EXTENDS Naturals, Integers, Sequences, FiniteSets, TLC

VARIABLES
    pc,             \* position of the click handler / runSecurityAudit
    button,         \* which button's handler is running
    checked,        \* the five option checkboxes of the page
    buttonsDisabled,\* checkButton.disabled and runSelectedButton.disabled
    currentDomain,  \* this.currentDomain
    netMsg,         \* the message of the network faults of this run
    flags,          \* checkRobots ... checkNonDeveloper read at run start
    items,          \* statuses of the checklist items, by data-index + 1
    title,          \* text of .checklist-title
    checkIndex,     \* let checkIndex
    cur,            \* index in Optional of the checker the run works on
    testResults,    \* let testResults
    res,            \* robotsResult ... nonDeveloperResult, by checker
    outstanding,    \* checkers invoked and not yet settled
    invoked,        \* the checker invocations of the run, in order
    thrown,         \* the checkers whose invocation threw in this run
    met,            \* what the request of each checker met, by checker
    fault,          \* the message of the error the outer catch caught
    report,         \* the accordion: its sections and timestamps
    display,        \* what #results shows
    uIn,            \* UrlChecker.testUrl: the base URL of the call
    uPc,            \* UrlChecker.testUrl: position
    uI,             \* UrlChecker.testUrl: index into urlsToTest
    uRes,           \* UrlChecker.testUrl: the results object
    rIn,            \* RobotsChecker: the body the server answers with
    rPc,            \* RobotsChecker and its report section: position
    rRes,           \* RobotsChecker.testRobotsUrl: the result
    rSec,           \* addRobotsResults: the section
    aIn,            \* AnalyticsChecker: the page the server answers with
    aPc,            \* AnalyticsChecker and its report section: position
    aRes,           \* AnalyticsChecker.testAnalyticsTracking: the result
    aSec,           \* addAnalyticsResults: the section
    sSite,          \* SSLChecker: the security headers the site sends
    sPc,            \* SSLChecker.testSSLCertificate: position
    sConn,          \* const connectivityResult
    sSec,           \* const securityAnalysis
    sApi,           \* trySSLLabsAPI: what the analysis API answered
    sCert,          \* const certDetails
    sLog,           \* the certificate tiers started and ended, in order
    sRes,           \* SSLChecker.testSSLCertificate: the result
    nIn,            \* NonDeveloperChecker: the page the server answers with
    nPc,            \* NonDeveloperChecker and its report section: position
    nRes,           \* NonDeveloperChecker.testNonDeveloperElements: the result
    nSec,           \* addNonDeveloperResults: the section
    pIn,            \* UrlChecker.testSingleUrl: the URL, of which four
    pPc,            \* UrlChecker.testSingleUrl: position
    pLog,           \* the requests made for the URL: mode and outcome
    pCell,          \* UrlChecker.testSingleUrl: the cell returned
    fUrls,          \* findFirstValidUrl: the candidate list
    fI,             \* findFirstValidUrl: the index of the loop
    fPc,            \* findFirstValidUrl: position
    fLog,           \* the requests made: candidate index and what came back
    fRet,           \* findFirstValidUrl: the value returned
    hPc,            \* click handlers: the position of each live handler
    hButton,        \* click handlers: the button each was started by
    hDisabled,      \* checkButton.disabled and runSelectedButton.disabled
    hDomain,        \* this.currentDomain
    hLog            \* the starts and ends of runSecurityAudit

appVars == <<pc, button, checked, buttonsDisabled, currentDomain, netMsg,
             flags, items, title, checkIndex, cur, testResults, res,
             outstanding, invoked, thrown, met, fault, report, display>>

urlVars == <<uIn, uPc, uI, uRes>>

robVars == <<rIn, rPc, rRes, rSec>>

anaVars == <<aIn, aPc, aRes, aSec>>

sslVars == <<sSite, sPc, sConn, sSec, sApi, sCert, sLog, sRes>>

conVars == <<nIn, nPc, nRes, nSec>>

proVars == <<pIn, pPc, pLog, pCell>>

popVars == <<fUrls, fI, fPc, fLog, fRet>>

clkVars == <<hPc, hButton, hDisabled, hDomain, hLog>>

vars == <<appVars, urlVars, robVars, anaVars, sslVars, conVars,
         proVars,
         popVars,
         clkVars>>

(***************************************************************************)
(* Bounds.                                                                 *)
(***************************************************************************)
\* largest number of leading "www" labels of an input host name
MaxWww == 3

(***************************************************************************)
(* Host names and URLs.                                                    *)
(***************************************************************************)
Bases == { <<"example", "com">>, <<"192", "168", "1", "1">> }

RECURSIVE WwwPrefixed(_, _)
WwwPrefixed(n, base) == IF n = 0 THEN base ELSE <<"www">> \o WwwPrefixed(n - 1, base)

Numeric(label) == label \in {"192", "168", "1"}

\* the URL parser accepts a host; a host whose last label is a number must be
\* an IPv4 address (at most four parts, all numbers)
ValidHost(h) ==
    /\ Len(h) > 0
    /\ Numeric(h[Len(h)]) => (Len(h) <= 4 /\ \A i \in 1..Len(h) : Numeric(h[i]))

\* the host names a tab can have: every valid host the bounds allow
Hosts == { h \in { WwwPrefixed(n, b) : n \in 0..MaxWww, b \in Bases } : ValidHost(h) }

NoUrl == [scheme |-> "none", host |-> << >>]

Url(scheme, host) == [scheme |-> scheme, host |-> host]

\* hostname.startsWith('www.')
startsWithWww(h) == Len(h) > 1 /\ h[1] = "www"

\* domain.replace(/^www\./, '')
stripWww(h) == IF startsWithWww(h) THEN Tail(h) ELSE h

Msgs == {"Failed to fetch", "NetworkError"}

(***************************************************************************)
(* UrlChecker.                                                             *)
(***************************************************************************)
Keys == {"https-non-www", "https-www", "http-non-www", "http-www"}

\* what the server (or the network) does with one probed URL: answers
\* directly, redirects to urlsToTest[to], redirects to another site
\* (moved), answers only the no-cors retry, or fails both requests;
\* cf: the response carries a Cloudflare header
ProbeOutcomes ==
    [k : {"ok"}, to : {0}, cf : BOOLEAN]
        \cup [k : {"redirect"}, to : 1..3, cf : {FALSE}]
        \cup [k : {"moved", "nocors", "fail"}, to : {0}, cf : {FALSE}]

\* response.url of a redirect that leaves the audited domain
Elsewhere == Url("https", <<"example", "org">>)

urlsToTest(baseDomain) ==
    << Url("https", baseDomain), Url("https", <<"www">> \o baseDomain),
       Url("http", baseDomain), Url("http", <<"www">> \o baseDomain) >>

\* testSingleUrl with the cell of the no-cors retry marked unreachable
testSingleUrlRetryUnreachable(url, urls, o) ==
    [url |-> url, status |-> IF o.k \in {"nocors", "fail"} THEN "error" ELSE "success",
     finalUrl |-> IF o.k = "redirect" THEN urls[o.to]
                  ELSE IF o.k = "moved" THEN Elsewhere
                  ELSE IF o.k = "ok" THEN url ELSE NoUrl,
     redirected |-> o.k \in {"redirect", "moved"},
     accessible |-> o.k \in {"ok", "redirect", "moved"}, note |-> FALSE,
     cloudflareDetected |-> o.cf]

\* fetch rejects a URL it cannot parse, whatever the server would do
testSingleUrl(url, urls, o) ==
    LET oo == IF ValidHost(url.host) THEN o ELSE [k |-> "fail", to |-> 0, cf |-> FALSE]
    IN  CASE oo.k = "ok" ->
               [url |-> url, status |-> "success", finalUrl |-> url,
                redirected |-> FALSE, accessible |-> TRUE, note |-> FALSE,
                cloudflareDetected |-> oo.cf]
          [] oo.k = "redirect" ->
               [url |-> url, status |-> "success", finalUrl |-> urls[oo.to],
                redirected |-> TRUE, accessible |-> TRUE, note |-> FALSE,
                cloudflareDetected |-> oo.cf]
          [] oo.k = "moved" ->
               [url |-> url, status |-> "success", finalUrl |-> Elsewhere,
                redirected |-> TRUE, accessible |-> TRUE, note |-> FALSE,
                cloudflareDetected |-> oo.cf]
          [] oo.k = "nocors" ->
               [url |-> url, status |-> "success", finalUrl |-> url,
                redirected |-> FALSE, accessible |-> TRUE, note |-> TRUE,
                cloudflareDetected |-> FALSE]
          [] OTHER ->
               [url |-> url, status |-> "error", finalUrl |-> NoUrl,
                redirected |-> FALSE, accessible |-> FALSE, note |-> FALSE,
                cloudflareDetected |-> FALSE]

\* defined only for a URL that new URL(url) accepts
getUrlKey(url) ==
    LET isHttps == url.scheme = "https"
        hasWww  == startsWithWww(url.host)
    IN  IF isHttps /\ hasWww THEN "https-www"
        ELSE IF isHttps /\ ~hasWww THEN "https-non-www"
        ELSE IF ~isHttps /\ hasWww THEN "http-www"
        ELSE "http-non-www"

NoCell ==
    [url |-> NoUrl, status |-> "error", finalUrl |-> NoUrl, redirected |-> FALSE,
     accessible |-> FALSE, note |-> FALSE, cloudflareDetected |-> FALSE]

\* tests: {}
NoTests == [k \in {} |-> NoCell]

InitialAnalysis ==
    [httpsWorking |-> FALSE, httpRedirectsToHttps |-> FALSE,
     wwwRedirection |-> "null", preferredUrl |-> NoUrl]

\* the results object testUrl starts from
InitialResults(baseUrl) ==
    [url |-> baseUrl, domain |-> baseUrl.host, tests |-> NoTests,
     analysis |-> InitialAnalysis, isCloudflare |-> FALSE,
     ipAddress |-> << >>]

\* results.tests[key] = testResult, and the Cloudflare flag of the loop body
storeTest(results, key, testResult) ==
    [results EXCEPT
        !.tests = (key :> testResult) @@ results.tests,
        !.isCloudflare = results.isCloudflare \/ testResult.cloudflareDetected]

\* tests[k]?.accessible and tests[k]?.redirected, as truth values
accessibleAt(tests, k) == k \in DOMAIN tests /\ tests[k].accessible

redirectedAt(tests, k) == k \in DOMAIN tests /\ tests[k].redirected

toHttpsAt(tests, k) ==
    redirectedAt(tests, k) /\ tests[k].finalUrl.scheme = "https"

preferredOf(cell) == IF cell.finalUrl # NoUrl THEN cell.finalUrl ELSE cell.url

\* analyzeResults without the '!httpsWww?.redirected' test of 'to-www'
analyzeResultsLoose(results) ==
    LET tests == results.tests
        old   == results.analysis
        a1 == [old EXCEPT
                 !.httpsWorking = accessibleAt(tests, "https-www")
                                    \/ accessibleAt(tests, "https-non-www"),
                 !.httpRedirectsToHttps =
                     old.httpRedirectsToHttps \/ toHttpsAt(tests, "http-non-www")
                        \/ toHttpsAt(tests, "http-www")]
        a2 == IF redirectedAt(tests, "https-www")
                   /\ accessibleAt(tests, "https-non-www")
                   /\ ~redirectedAt(tests, "https-non-www")
              THEN [a1 EXCEPT !.wwwRedirection = "to-non-www",
                              !.preferredUrl = preferredOf(tests["https-non-www"])]
              ELSE IF redirectedAt(tests, "https-non-www")
                        /\ accessibleAt(tests, "https-www")
              THEN [a1 EXCEPT !.wwwRedirection = "to-www",
                              !.preferredUrl = preferredOf(tests["https-www"])]
              ELSE IF accessibleAt(tests, "https-www")
                        /\ accessibleAt(tests, "https-non-www")
              THEN [a1 EXCEPT !.wwwRedirection = "both-work"]
              ELSE [a1 EXCEPT !.wwwRedirection = "unclear"]
    IN  [results EXCEPT !.analysis = a2]

analyzeResults(results) ==
    LET tests == results.tests
        old   == results.analysis
        a1 == [old EXCEPT
                 !.httpsWorking = accessibleAt(tests, "https-www")
                                    \/ accessibleAt(tests, "https-non-www"),
                 !.httpRedirectsToHttps =
                     old.httpRedirectsToHttps \/ toHttpsAt(tests, "http-non-www")
                        \/ toHttpsAt(tests, "http-www")]
        a2 == IF redirectedAt(tests, "https-www")
                   /\ accessibleAt(tests, "https-non-www")
                   /\ ~redirectedAt(tests, "https-non-www")
              THEN [a1 EXCEPT !.wwwRedirection = "to-non-www",
                              !.preferredUrl = preferredOf(tests["https-non-www"])]
              ELSE IF redirectedAt(tests, "https-non-www")
                        /\ accessibleAt(tests, "https-www")
                        /\ ~redirectedAt(tests, "https-www")
              THEN [a1 EXCEPT !.wwwRedirection = "to-www",
                              !.preferredUrl = preferredOf(tests["https-www"])]
              ELSE IF accessibleAt(tests, "https-www")
                        /\ accessibleAt(tests, "https-non-www")
              THEN [a1 EXCEPT !.wwwRedirection = "both-work"]
              ELSE [a1 EXCEPT !.wwwRedirection = "unclear"]
    IN  [results EXCEPT !.analysis = a2]

cloudflareRanges ==
    << <<"1", "7", "3", ".", "2", "4", "5", ".", "4", "8">>,
       <<"1", "0", "3", ".", "2", "1", ".", "2", "4", "4">>,
       <<"1", "0", "3", ".", "2", "2", ".", "2", "0", "0">>,
       <<"1", "0", "3", ".", "3", "1", ".", "4">>,
       <<"1", "4", "1", ".", "1", "0", "1", ".", "6", "4">>,
       <<"1", "0", "8", ".", "1", "6", "2", ".", "1", "9", "2">>,
       <<"1", "9", "0", ".", "9", "3", ".", "2", "4", "0">>,
       <<"1", "8", "8", ".", "1", "1", "4", ".", "9", "6">>,
       <<"1", "9", "7", ".", "2", "3", "4", ".", "2", "4", "0">>,
       <<"1", "9", "8", ".", "4", "1", ".", "1", "2", "8">>,
       <<"1", "6", "2", ".", "1", "5", "8">>,
       <<"1", "0", "4", ".", "1", "6">>,
       <<"1", "0", "4", ".", "2", "4">>,
       <<"1", "3", "1", ".", "0", ".", "7", "2">> >>

\* ip.startsWith(range), on the characters of the two strings
startsWith(str, prefix) ==
    /\ Len(prefix) <= Len(str)
    /\ \A i \in 1..Len(prefix) : str[i] = prefix[i]

checkCloudflare(ip) ==
    \E i \in 1..Len(cloudflareRanges) : startsWith(ip, cloudflareRanges[i])

Ips ==
    { <<"1", "0", "4", ".", "1", "6", ".", "0", ".", "1">>,
      <<"1", "0", "4", ".", "1", "6", "0", ".", "0", ".", "1">>,
      <<"9", "3", ".", "1", "8", "4", ".", "2", "1", "6", ".", "3", "4">> }

\* what the DNS-over-HTTPS lookup does: an answer with an address, a reply
\* without Answer, or a failed request
DnsOutcomes ==
    [k : {"answer"}, ip : Ips] \cup [k : {"none", "fail"}, ip : {<< >>}]

getIpAddress(dns) ==
    CASE dns.k = "answer" -> [ip |-> dns.ip, isCloudflare |-> checkCloudflare(dns.ip)]
      [] dns.k = "none"   -> [ip |-> <<"Unable to resolve">>, isCloudflare |-> FALSE]
      [] OTHER            -> [ip |-> <<"DNS lookup failed">>, isCloudflare |-> FALSE]

\* the tail of testUrl: the address and the Cloudflare flag
withIpInfo(results, dns) ==
    LET ipInfo == getIpAddress(dns)
    IN  [results EXCEPT !.ipAddress = ipInfo.ip,
                        !.isCloudflare = results.isCloudflare \/ ipInfo.isCloudflare]

\* the loop of testUrl over urlsToTest[1..n]
RECURSIVE testedUpTo(_, _, _, _)
testedUpTo(results, urls, probes, n) ==
    IF n = 0 THEN results
    ELSE storeTest(testedUpTo(results, urls, probes, n - 1),
                   getUrlKey(urls[n]),
                   testSingleUrl(urls[n], urls, probes[n]))

\* testUrl rejects when new URL() rejects the base URL or one of the four
\* URLs handed to getUrlKey
testUrlThrows(baseUrl) ==
    \/ ~ValidHost(baseUrl.host)
    \/ \E i \in 1..4 : ~ValidHost(urlsToTest(stripWww(baseUrl.host))[i].host)

\* the whole of UrlChecker.testUrl against a site: probes[1..4] and dns
testUrl(baseUrl, site) ==
    LET urls == urlsToTest(stripWww(baseUrl.host))
    IN  withIpInfo(analyzeResults(
            testedUpTo(InitialResults(baseUrl), urls, site.probes, 4)), site.dns)

(***************************************************************************)
(* Report lines and checker results.                                       *)
(***************************************************************************)
Undefined == "undefined"

\* a detail line: template t with interpolated text a, number n, URL u or
\* character string s
L(t) == [t |-> t, a |-> "", n |-> 0, u |-> NoUrl, s |-> << >>]

LA(t, a) == [L(t) EXCEPT !.a = a]

LN(t, n) == [L(t) EXCEPT !.n = n]

LU(t, u) == [L(t) EXCEPT !.u = u]

LS(t, str) == [L(t) EXCEPT !.s = str]

\* a checker result: the fields the orchestrator and the report read;
\* payload: the analysis / analytics object is present
NoResult ==
    [status |-> "none", error |-> Undefined, message |-> Undefined,
     details |-> << >>, payload |-> FALSE, analysis |-> [none |-> TRUE],
     summary |-> << >>, content |-> << >>, size |-> 0, grade |-> Undefined]

Truthy(str) == str # Undefined /\ str # ""

\* what a page request does: a 2xx answer, a non-2xx answer, or a rejection
PageOutcomes == {"ok", "http", "reject"}

(***************************************************************************)
(* RobotsChecker.  A robots.txt body is the sequence of its lines, as     *)
(* content.split('\n') yields them: the zero-length body is one blank     *)
(* line.  A line is blank, white space only, a comment, text without a    *)
(* colon, or "d: v".                                                       *)
(***************************************************************************)
Blank == [k |-> "blank", d |-> "", v |-> ""]

Space == [k |-> "space", d |-> "", v |-> ""]

Comment == [k |-> "comment", d |-> "#", v |-> "note"]

NoColon == [k |-> "nocolon", d |-> "", v |-> "hello"]

Directive(d, v) == [k |-> "text", d |-> d, v |-> v]

RobotsLines ==
    { Blank, Space, Comment, NoColon }
        \cup { Directive("User-agent", v) : v \in {"", "*", "Googlebot"} }
        \cup { Directive("USER-AGENT", "*") }
        \cup { Directive("Disallow", v) : v \in {"/", "/admin"} }
        \cup { Directive("Allow", "/") }
        \cup { Directive("Sitemap", v) :
                 v \in {"https://x/sitemap.xml", "https://x/news.xml"} }
        \cup { Directive("Crawl-delay", v) : v \in {"10", "5", "0", "abc"} }
        \cup { Directive("Host", "x") }

\* line.length
lineLength(line) ==
    CASE line.k = "blank"   -> 0
      [] line.k = "space"   -> 1
      [] line.k = "comment" -> Len(line.d) + 1 + Len(line.v)
      [] line.k = "nocolon" -> Len(line.v)
      [] OTHER              -> Len(line.d) + 2 + Len(line.v)

RECURSIVE sumLengths(_, _)
sumLengths(content, n) ==
    IF n = 0 THEN 0 ELSE sumLengths(content, n - 1) + lineLength(content[n])

\* content.length: the lines and the newlines between them
contentLength(content) ==
    IF content = << >> THEN 0
    ELSE sumLengths(content, Len(content)) + Len(content) - 1

\* content.trim().length === 0
trimsToEmpty(content) ==
    \A i \in 1..Len(content) : content[i].k \in {"blank", "space"}

\* the lower-cased directive names of RobotsLines
toLowerCase(d) ==
    CASE d \in {"User-agent", "USER-AGENT"} -> "user-agent"
      [] d = "Disallow"    -> "disallow"
      [] d = "Allow"       -> "allow"
      [] d = "Sitemap"     -> "sitemap"
      [] d = "Crawl-delay" -> "crawl-delay"
      [] d = "Host"        -> "host"
      [] OTHER             -> d

\* the directive of a line the loop gets past its two 'continue's with
directiveOf(line) == IF line.k = "text" THEN toLowerCase(line.d) ELSE "none"

NaN == [nan |-> TRUE, n |-> 0]

Number(n) == [nan |-> FALSE, n |-> n]

\* parseInt on the values of RobotsLines
parseInt(v) ==
    CASE v = "10" -> Number(10)
      [] v = "5"  -> Number(5)
      [] v = "0"  -> Number(0)
      [] OTHER    -> NaN

\* crawlDelay: null
NullDelay == [null |-> TRUE, n |-> 0]

\* parseInt(value) || null
orNull(p) == IF p.nan \/ p.n = 0 THEN NullDelay ELSE [null |-> FALSE, n |-> p.n]

includes(seq, v) == \E i \in 1..Len(seq) : seq[i] = v

\* currentUserAgent = null
NoAgent == [set |-> FALSE, v |-> ""]

EmptyRobotsAnalysis(totalLines) ==
    [userAgents |-> << >>, disallowedPaths |-> << >>, allowedPaths |-> << >>,
     sitemaps |-> << >>, crawlDelay |-> NullDelay, totalLines |-> totalLines,
     hasWildcard |-> FALSE]

\* one turn of the loop of analyzeRobotsContent
analyzeLine(acc, line) ==
    LET an  == acc.analysis
        agent == acc.currentUserAgent
        dir == directiveOf(line)
        value == line.v
        entry == [userAgent |-> agent.v, path |-> value]
    IN  CASE dir = "user-agent" ->
               [analysis |->
                   [an EXCEPT
                      !.userAgents = IF includes(an.userAgents, value)
                                     THEN an.userAgents
                                     ELSE Append(an.userAgents, value),
                      !.hasWildcard = an.hasWildcard \/ value = "*"],
                currentUserAgent |-> [set |-> TRUE, v |-> value]]
          [] dir = "disallow" /\ agent.set /\ agent.v # "" ->
               [acc EXCEPT !.analysis.disallowedPaths =
                               Append(an.disallowedPaths, entry)]
          [] dir = "allow" /\ agent.set /\ agent.v # "" ->
               [acc EXCEPT !.analysis.allowedPaths =
                               Append(an.allowedPaths, entry)]
          [] dir = "sitemap" ->
               [acc EXCEPT !.analysis.sitemaps = Append(an.sitemaps, value)]
          [] dir = "crawl-delay" ->
               [acc EXCEPT !.analysis.crawlDelay = orNull(parseInt(value))]
          [] OTHER -> acc

RECURSIVE analyzeLines(_, _)
analyzeLines(lines, n) ==
    IF n = 0
    THEN [analysis |-> EmptyRobotsAnalysis(Len(lines)),
          currentUserAgent |-> NoAgent]
    ELSE analyzeLine(analyzeLines(lines, n - 1), lines[n])

analyzeRobotsContent(content) == analyzeLines(content, Len(content)).analysis

\* the robots.txt the audited site of Spec serves
SampleRobots == << Directive("User-agent", "*"), Directive("Disallow", "/") >>

\* RobotsChecker.testRobotsUrl
testRobotsUrl(o, msg, content) ==
    CASE o = "ok" ->
           [NoResult EXCEPT !.status = "success", !.content = content,
                            !.payload = TRUE,
                            !.analysis = analyzeRobotsContent(content),
                            !.size = contentLength(content)]
      [] o = "http" ->
           [NoResult EXCEPT !.status = "error", !.message = "HTTP 404: Not Found"]
      [] OTHER ->
           [NoResult EXCEPT !.status = "error", !.message = msg]

(***************************************************************************)
(* AnalyticsChecker.  A page is the sequence of the places of its HTML     *)
(* that one of the identifier patterns matches, in document order: kind    *)
(* names the pattern (UA-\d+-\d+, G-[A-Z0-9]+, GTM-[A-Z0-9]+, fbq('init',  *)
(* hjid:), id the matched identifier; kind "text" is HTML no pattern      *)
(* matches.                                                                *)
(***************************************************************************)
Token(kind, id) == [kind |-> kind, id |-> id]

PageTokens ==
    { Token("ua", "UA-1-1"), Token("ga4", "G-A"), Token("ga4", "G-B"),
      Token("gtm", "GTM-A"), Token("gtm", "GTM-B"), Token("fbq", "1"),
      Token("hjid", "7"), Token("text", "") }

\* html.match(pattern) || []
RECURSIVE matches(_, _, _)
matches(html, kind, n) ==
    IF n = 0 THEN << >>
    ELSE IF html[n].kind = kind
         THEN Append(matches(html, kind, n - 1), html[n].id)
         ELSE matches(html, kind, n - 1)

match(html, kind) == matches(html, kind, Len(html))

\* [...new Set(ids)]
RECURSIVE uniqueUpTo(_, _)
uniqueUpTo(ids, n) ==
    IF n = 0 THEN << >>
    ELSE LET before == uniqueUpTo(ids, n - 1)
         IN  IF includes(before, ids[n]) THEN before ELSE Append(before, ids[n])

unique(ids) == uniqueUpTo(ids, Len(ids))

\* counts[id]
counts(ids, id) == Cardinality({ i \in 1..Len(ids) : ids[i] = id })

\* the over-count issues: one per identifier, in Object.keys order, whose
\* count is greater than 2
RECURSIVE excessive(_, _, _, _)
excessive(t, ids, uniq, n) ==
    IF n = 0 THEN << >>
    ELSE excessive(t, ids, uniq, n - 1)
           \o (IF counts(ids, uniq[n]) > 2
               THEN << [L(t) EXCEPT !.a = uniq[n], !.n = counts(ids, uniq[n])] >>
               ELSE << >>)

\* overCounts entered only when the matches outnumber twice the identifiers
overCountsWhenMostRepeat(t, ids) ==
    IF Len(ids) > 2 * Len(unique(ids))
    THEN excessive(t, ids, unique(ids), Len(unique(ids)))
    ELSE << >>

\* the block under 'matches.length > unique.length'
overCounts(t, ids) ==
    IF Len(ids) > Len(unique(ids))
    THEN excessive(t, ids, unique(ids), Len(unique(ids)))
    ELSE << >>

\* AnalyticsChecker.detectAnalytics: the Google Analytics, Tag Manager,
\* Facebook Pixel and Hotjar parts
detectAnalytics(html) ==
    LET uaMatches  == match(html, "ua")
        ga4Matches == match(html, "ga4")
        gtmMatches == match(html, "gtm")
        fbPixelMatches == match(html, "fbq")
        hotjarMatches  == match(html, "hjid")
    IN  [googleAnalytics |->
            [found |-> Len(uaMatches) > 0 \/ Len(ga4Matches) > 0,
             versions |-> IF Len(ga4Matches) > 0 THEN << "GA4" >> ELSE << >>,
             trackingIds |-> unique(uaMatches) \o unique(ga4Matches),
             issues |->
                (IF Len(uaMatches) > 0
                 THEN << LS("Deprecated Universal Analytics tag(s) found: ",
                            unique(uaMatches)) >>
                 ELSE << >>)
                  \o overCounts("Excessive GA4 ID counts: ", ga4Matches)],
         googleTagManager |->
            [found |-> Len(gtmMatches) > 0,
             containerIds |-> unique(gtmMatches),
             issues |->
                (IF Len(unique(gtmMatches)) > 1
                 THEN << LS("Multiple distinct GTM containers detected",
                            unique(gtmMatches)) >>
                 ELSE << >>)
                  \o overCounts("Excessive GTM counts: ", gtmMatches)],
         facebookPixel |->
            [found |-> Len(fbPixelMatches) > 0, pixelIds |-> fbPixelMatches],
         hotjar |->
            [found |-> Len(hotjarMatches) > 0, siteIds |-> hotjarMatches]]

\* AnalyticsChecker.generateAnalyticsSummary, for the same four services
generateAnalyticsSummary(analytics) ==
    LET ga  == analytics.googleAnalytics
        gtm == analytics.googleTagManager
        fb  == analytics.facebookPixel
        hj  == analytics.hotjar
        summary ==
            (IF ga.found
             THEN << LS("Google Analytics: ", ga.versions) >>
                    \o (IF Len(ga.trackingIds) > 0
                        THEN << LS("   IDs: ", ga.trackingIds) >> ELSE << >>)
                    \o ga.issues
             ELSE << >>)
              \o (IF gtm.found
                  THEN << LS("Google Tag Manager: ", gtm.containerIds) >>
                         \o gtm.issues
                  ELSE << >>)
              \o (IF fb.found THEN << LS("Facebook Pixel: ", fb.pixelIds) >>
                  ELSE << >>)
              \o (IF hj.found THEN << LS("Hotjar: ", hj.siteIds) >> ELSE << >>)
    IN  IF Len(summary) = 0
        THEN << L("No major analytics or tracking services detected") >>
        ELSE summary

\* the page the audited site of Spec serves
SamplePage == << Token("ga4", "G-A"), Token("ga4", "G-A"), Token("text", "") >>

\* AnalyticsChecker.testAnalyticsTracking
testAnalyticsTracking(o, msg, html) ==
    CASE o = "ok" ->
           [NoResult EXCEPT !.status = "success", !.payload = TRUE,
                            !.analysis = detectAnalytics(html),
                            !.summary =
                                generateAnalyticsSummary(detectAnalytics(html))]
      [] o = "http" ->
           [NoResult EXCEPT !.status = "error",
                            !.message = "Failed to fetch page: 404"]
      [] OTHER ->
           [NoResult EXCEPT !.status = "error", !.message = msg]

\* MetaChecker.testMetaTags
testMetaTags(o, msg) ==
    CASE o = "ok" ->
           [NoResult EXCEPT !.status = "success", !.payload = TRUE,
                            !.details = << L("meta report") >>]
      [] o = "http" ->
           [NoResult EXCEPT !.status = "error",
                            !.details = << LN("Failed to fetch page: ", 404) >>]
      [] OTHER ->
           [NoResult EXCEPT !.status = "error",
                            !.details = << L("Meta tags check failed") >>]

\* what the HTTPS probes of the SSL checker meet: the connection fails, or
\* it succeeds and the answer carries hdr of the four security headers
SslOutcomes == [k : {"ok"}, hdr : {0, 2}] \cup [k : {"reject"}, hdr : {0}]

(***************************************************************************)
(* SSLChecker.  A site is the set of the security headers its answers     *)
(* carry; each request of the checker succeeds or rejects on its own.     *)
(***************************************************************************)
SecurityHeaders ==
    << "strict-transport-security", "content-security-policy",
       "x-frame-options", "x-content-type-options" >>

HeaderSet == { SecurityHeaders[i] : i \in 1..Len(SecurityHeaders) }

\* info.name
headerName(h) ==
    CASE h = "strict-transport-security" -> "HSTS"
      [] h = "content-security-policy"   -> "CSP"
      [] h = "x-frame-options"           -> "X-Frame-Options"
      [] OTHER                           -> "X-Content-Type-Options"

\* one line of the header status breakdown
breakdownLine(h, found) ==
    [L("header breakdown") EXCEPT !.a = headerName(h),
                                  !.n = IF found THEN 1 ELSE 0]

breakdown(present) ==
    [ i \in 1..Len(SecurityHeaders) |->
        breakdownLine(SecurityHeaders[i], SecurityHeaders[i] \in present) ]

\* SSLChecker.checkSSLConnection
checkSSLConnection(ok, msg) ==
    IF ok THEN [success |-> TRUE, error |-> Undefined]
    ELSE [success |-> FALSE, error |-> msg]

NoSecurityAnalysis == [success |-> FALSE, details |-> << >>]

\* SSLChecker.validateSSLHeaders: ok, the HEAD request is answered, with
\* the headers in present
validateSSLHeaders(ok, present, msg) ==
    IF ok
    THEN LET foundCount == Cardinality(present)
         IN  [success |-> TRUE,
              details |-> << LN("Security Headers Analysis: ", foundCount) >>
                            \o breakdown(present)
                            \o (IF foundCount = Len(SecurityHeaders)
                                THEN << L(""),
                                        L("Excellent: All recommended security headers are present!") >>
                                ELSE << >>),
              securityScore |-> foundCount]
    ELSE [success |-> FALSE,
          details |-> << LA("Security headers analysis failed: ", msg) >>]

\* what the TLS-analysis API does: the request rejects, or it is answered
\* with response.ok, data.status and a number of endpoints
ApiOutcomes ==
    [k : {"reject"}, ok : {FALSE}, status : {"none"}, endpoints : {0}]
        \cup [k : {"answer"}, ok : BOOLEAN, status : {"READY", "IN_PROGRESS"},
              endpoints : 0..1]

ApiDown == [k |-> "reject", ok |-> FALSE, status |-> "none", endpoints |-> 0]

NoCert ==
    [success |-> FALSE, hasData |-> FALSE, tier |-> 0, grade |-> Undefined,
     dataGrade |-> Undefined, securityHeaders |-> {}]

\* trySSLLabsAPI accepting a READY answer without endpoints
trySSLLabsAPIAnyReady(api) ==
    IF api.k = "answer" /\ api.ok /\ api.status = "READY"
    THEN [NoCert EXCEPT !.success = TRUE, !.hasData = TRUE, !.tier = 1,
                        !.grade = "A", !.dataGrade = "A"]
    ELSE [NoCert EXCEPT !.tier = 1]

\* SSLChecker.trySSLLabsAPI
trySSLLabsAPI(api) ==
    IF api.k = "answer" /\ api.ok /\ api.status = "READY" /\ api.endpoints > 0
    THEN [NoCert EXCEPT !.success = TRUE, !.hasData = TRUE, !.tier = 1,
                        !.grade = "A", !.dataGrade = "A"]
    ELSE [NoCert EXCEPT !.tier = 1]

\* SSLChecker.tryAlternativeSSLCheck
tryAlternativeSSLCheck(ok, present) ==
    IF ok
    THEN [NoCert EXCEPT !.success = TRUE, !.hasData = TRUE, !.tier = 2,
                        !.dataGrade = "B", !.securityHeaders = present]
    ELSE [NoCert EXCEPT !.tier = 2]

\* SSLChecker.basicSSLValidation: ok, its own HEAD request is answered;
\* securityAnalysis, what its call of validateSSLHeaders returns
basicSSLValidation(ok, securityAnalysis) ==
    [NoCert EXCEPT !.tier = 3, !.success = ok /\ securityAnalysis.success]

\* SSLChecker.formatCertificateInfo, on the data of tier 1 or of tier 2
formatCertificateInfo(cert) ==
    (IF Truthy(cert.dataGrade) THEN << LA("SSL Grade: ", cert.dataGrade) >>
     ELSE << >>)
      \o (IF cert.tier = 1
          THEN << LA("Issuer: ", "Unknown"), L("Valid until: "),
                  L("certificate expiry"), LA("Protocols: ", "Unknown"),
                  LA("Key size: ", "Unknown") >>
          ELSE LET headerCount == Cardinality(cert.securityHeaders)
               IN  << L(""), LN("Security Headers: ", headerCount) >>
                     \o breakdown(cert.securityHeaders)
                     \o (IF headerCount < Len(SecurityHeaders)
                         THEN << L(""), L("Missing security headers detected") >>
                         ELSE << >>))

\* sslStatus with a failed header analysis reported as an error
sslStatusErrorOnFailure(securityAnalysis) ==
    IF securityAnalysis.success
    THEN IF securityAnalysis.securityScore = 0 THEN "warning" ELSE "success"
    ELSE "error"

\* let status of testSSLCertificate, once the connection is established
sslStatus(securityAnalysis) ==
    IF securityAnalysis.success
    THEN IF securityAnalysis.securityScore = 0 THEN "warning" ELSE "success"
    ELSE "warning"

\* the result testSSLCertificate returns when the connection fails
sslUnreachable(connectivityResult) ==
    [NoResult EXCEPT
        !.status = "error",
        !.details = << IF Truthy(connectivityResult.error)
                       THEN LA("SSL connection failed: ", connectivityResult.error)
                       ELSE L("SSL connection failed") >>]

\* the result testSSLCertificate combines from the header analysis and the
\* certificate details
sslCombined(securityAnalysis, certDetails) ==
    [NoResult EXCEPT
        !.status = sslStatus(securityAnalysis),
        !.details =
            (IF certDetails.success /\ certDetails.hasData
             THEN formatCertificateInfo(certDetails)
             ELSE << L("HTTPS connection successful"),
                     L("SSL certificate appears valid") >>)
              \o (IF securityAnalysis.success
                  THEN << L("") >> \o securityAnalysis.details
                  ELSE << L(""), L("Security headers analysis failed") >>
                         \o securityAnalysis.details),
        !.grade = IF certDetails.success /\ certDetails.hasData
                  THEN IF Truthy(certDetails.grade) THEN certDetails.grade
                       ELSE "Unknown"
                  ELSE "Basic Check"]

\* SSLChecker.getSSLCertificateDetails, given what each request meets
getSSLCertificateDetails(api, altOk, basicOk, present, msg) ==
    IF trySSLLabsAPI(api).success THEN trySSLLabsAPI(api)
    ELSE IF tryAlternativeSSLCheck(altOk, present).success
    THEN tryAlternativeSSLCheck(altOk, present)
    ELSE basicSSLValidation(basicOk, validateSSLHeaders(basicOk, present, msg))

\* the first n security headers
firstHeaders(n) == { SecurityHeaders[i] : i \in 1..n }

\* SSLChecker.testSSLCertificate, for the sites of SslOutcomes: the
\* analysis API is out of reach and the site answers every request alike
testSSLCertificate(o, msg) ==
    LET connectivityResult == checkSSLConnection(o.k = "ok", msg)
        present == firstHeaders(o.hdr)
    IN  IF ~connectivityResult.success
        THEN sslUnreachable(connectivityResult)
        ELSE sslCombined(validateSSLHeaders(TRUE, present, msg),
                         getSSLCertificateDetails(ApiDown, TRUE, TRUE, present, msg))

\* what the content checker meets: a page that passes its three checks, a
\* page that fails or warns on one, a non-2xx answer, or a rejection
ContentOutcomes == {"ok", "issues", "http", "reject"}

\* const socialDomains, each domain as the sequence of its labels
socialDomains ==
    << <<"facebook", "com">>, <<"twitter", "com">>, <<"x", "com">>,
       <<"instagram", "com">>, <<"linkedin", "com">>, <<"youtube", "com">>,
       <<"tiktok", "com">>, <<"pinterest", "com">>, <<"snapchat", "com">>,
       <<"whatsapp", "com">>, <<"telegram", "org">>, <<"discord", "com">>,
       <<"reddit", "com">>, <<"tumblr", "com">>, <<"flickr", "com">>,
       <<"vimeo", "com">>, <<"twitch", "tv">> >>

\* an <a href>: form "abs" is http(s)://host/..., "protocolRelative" is
\* //host/..., "relative" is a path, "malformed" an http... text that
\* new URL() rejects; target and rel are the attribute values, "none" when
\* the attribute is absent
Link(form, host, target, rel) ==
    [form |-> form, host |-> host, target |-> target, rel |-> rel]

Hrefs ==
    { [form |-> "abs", host |-> <<"facebook", "com">>],
      [form |-> "abs", host |-> <<"www", "x", "com">>],
      [form |-> "protocolRelative", host |-> <<"twitch", "tv">>],
      [form |-> "abs", host |-> <<"notx", "com">>],
      [form |-> "relative", host |-> <<"facebook", "com">>],
      [form |-> "malformed", host |-> << >>] }

PageLinks ==
    { Link(h.form, h.host, t, r) :
        h \in Hrefs, t \in {"_blank", "none"}, r \in {"noopener", "none"} }

\* domain === social || domain.endsWith('.' + social)
isOn(domain, social) ==
    \/ domain = social
    \/ /\ Len(domain) > Len(social)
       /\ SubSeq(domain, Len(domain) - Len(social) + 1, Len(domain)) = social

\* socialDomains.find(...): the index of the first match, 0 when none
socialPlatform(domain) ==
    LET hits == { i \in 1..Len(socialDomains) : isOn(domain, socialDomains[i]) }
    IN  IF hits = {} THEN 0 ELSE CHOOSE i \in hits : \A j \in hits : i <= j

\* what the forEach of checkSocialMediaLinks pushes for one link
socialLink(link) ==
    IF link.form \in {"abs", "protocolRelative"} /\ socialPlatform(link.host) > 0
    THEN << [platform |-> socialDomains[socialPlatform(link.host)][1],
             opensInNewTab |-> link.target = "_blank",
             hasNoopener |-> link.rel = "noopener"] >>
    ELSE << >>

RECURSIVE socialLinksOf(_, _)
socialLinksOf(links, n) ==
    IF n = 0 THEN << >>
    ELSE socialLinksOf(links, n - 1) \o socialLink(links[n])

countOf(seq, Test(_)) == Len(SelectSeq(seq, Test))

\* checkSocialMediaLinks with a link that lacks an attribute not counted as
\* a social link
checkSocialMediaLinksStrict(links) ==
    LET all == socialLinksOf(links, Len(links))
        secure(l) == l.opensInNewTab /\ l.hasNoopener
        found == SelectSeq(all, secure)
    IN  [found |-> Len(found) > 0,
         links |-> found,
         issues |-> IF Len(found) = 0
                    THEN << L("No social media links found") >>
                    ELSE << >>]

\* NonDeveloperChecker.checkSocialMediaLinks
checkSocialMediaLinks(links) ==
    LET found == socialLinksOf(links, Len(links))
        withoutTarget(l) == ~l.opensInNewTab
        withoutNoopener(l) == ~l.hasNoopener
    IN  [found |-> Len(found) > 0,
         links |-> found,
         issues |->
            IF Len(found) = 0
            THEN << L("No social media links found") >>
            ELSE (IF countOf(found, withoutTarget) > 0
                  THEN << LN("social link(s) don't open in new tab",
                             countOf(found, withoutTarget)) >>
                  ELSE << >>)
                   \o (IF countOf(found, withoutNoopener) > 0
                       THEN << LN("social link(s) missing rel=noopener security attribute",
                                  countOf(found, withoutNoopener)) >>
                       ELSE << >>)]

\* what checkFooterCopyright and checkWebFonts come to: found without
\* issues, found with issues, or not found
CheckOutcomes == {"pass", "warn", "fail"}

subCheck(o) ==
    [found |-> o # "fail",
     issues |-> IF o = "pass" THEN << >> ELSE << L("issue") >>]

\* a page, as the content checker reads it
ContentPage(copyright, webFonts, links) ==
    [copyright |-> copyright, webFonts |-> webFonts, links |-> links]

\* checksPassed / checksWarned / checksFailed outcome of one sub-check
evaluated(name, check) ==
    IF name = "socialLinks"
    THEN IF check.found THEN "passed" ELSE "failed"
    ELSE IF check.found /\ Len(check.issues) = 0 THEN "passed"
         ELSE IF check.found THEN "warned" ELSE "failed"

\* formatCopyrightResults and formatWebFontsResults
formatSubCheck(name, check) ==
    << LA(name, evaluated(name, check)), L("") >>

\* NonDeveloperChecker.formatSocialLinksResults
formatSocialLinksResults(check) ==
    IF check.found
    THEN LET secure(l) == l.opensInNewTab /\ l.hasNoopener
         IN  << LN("SOCIAL MEDIA: link(s) found", Len(check.links)),
                L("   Platforms: "),
                LN("   Secure external links: ", countOf(check.links, secure)) >>
               \o (IF Len(check.issues) > 0
                   THEN << L("   Security Recommendations:") >> \o check.issues
                          \o << L("   Note: These are security best practices, not critical failures") >>
                   ELSE << >>)
    ELSE << L("SOCIAL MEDIA: No links found"),
            L("   No social media links detected") >>

\* the try block of testNonDeveloperElements once the page is fetched
analyzeContent(page) ==
    LET copyrightCheck   == subCheck(page.copyright)
        webFontsCheck    == subCheck(page.webFonts)
        socialLinksCheck == checkSocialMediaLinks(page.links)
        outcomes == << evaluated("copyright", copyrightCheck),
                       evaluated("webFonts", webFontsCheck),
                       evaluated("socialLinks", socialLinksCheck) >>
        isFailed(o) == o = "failed"
        isWarned(o) == o = "warned"
        isPassed(o) == o = "passed"
        overallStatus == IF countOf(outcomes, isFailed) > 0 THEN "warning"
                         ELSE IF countOf(outcomes, isWarned) > 0 THEN "warning"
                         ELSE "success"
        statusMessage ==
            IF countOf(outcomes, isFailed) > 0
            THEN LS("Content and style elements: failed, warned, passed",
                    << ToString(countOf(outcomes, isFailed)),
                       ToString(countOf(outcomes, isWarned)),
                       ToString(countOf(outcomes, isPassed)) >>)
            ELSE IF countOf(outcomes, isWarned) > 0
            THEN LS("Content and style elements: have issues, passed",
                    << ToString(countOf(outcomes, isWarned)),
                       ToString(countOf(outcomes, isPassed)) >>)
            ELSE L("Content and style elements analyzed")
    IN  [NoResult EXCEPT
            !.status = overallStatus,
            !.payload = TRUE,
            !.analysis = [copyright |-> copyrightCheck,
                          webFonts |-> webFontsCheck,
                          socialLinks |-> socialLinksCheck],
            !.details = << statusMessage, L(""), L("CONTENT AND STYLE CHECKS:") >>
                          \o formatSubCheck("COPYRIGHT: ", copyrightCheck)
                          \o formatSubCheck("WEB FONTS: ", webFontsCheck)
                          \o formatSocialLinksResults(socialLinksCheck)]

\* the catch block of testNonDeveloperElements
contentFailed(err) ==
    [NoResult EXCEPT !.status = "error", !.error = err, !.payload = TRUE,
                     !.details = << L("Failed to analyze content and style elements"),
                                    LA("Error: ", err),
                                    L("attempted checks") >>]

\* the pages the audited site of Spec serves
SampleContent(o) ==
    ContentPage(IF o = "issues" THEN "warn" ELSE "pass", "pass",
                << Link("abs", <<"facebook", "com">>, "_blank", "noopener") >>)

\* NonDeveloperChecker.testNonDeveloperElements, given the page it fetches
contentResult(o, msg, page) ==
    CASE o \in {"ok", "issues"} -> analyzeContent(page)
      [] o = "http" -> contentFailed("HTTP 404: Not Found")
      [] OTHER -> contentFailed(msg)

\* NonDeveloperChecker.testNonDeveloperElements
testNonDeveloperElements(o, msg) == contentResult(o, msg, SampleContent(o))

(***************************************************************************)
(* UIHelpers: the checklist.                                               *)
(***************************************************************************)
Optional == << "robots", "analytics", "ssl", "meta", "content" >>

OptionalSet == { Optional[i] : i \in 1..Len(Optional) }

Checkers == {"topology"} \cup OptionalSet

Terminal == {"success", "warning", "error"}

Running == "Running Checks..."

\* allChecks: the two URL labels, then one label per enabled option
allChecks(fl) ==
    << "https url", "http url" >>
        \o (IF fl["robots"] THEN << "robots.txt url" >> ELSE << >>)
        \o (IF fl["analytics"] THEN << "Analytics & Tracking check" >> ELSE << >>)
        \o (IF fl["ssl"] THEN << "SSL & Security Headers check" >> ELSE << >>)
        \o (IF fl["meta"] THEN << "Meta Tags & SEO check" >> ELSE << >>)
        \o (IF fl["content"] THEN << "Content and Style checks" >> ELSE << >>)

\* one 'pending' item per label under the 'Running Checks...' title
createChecklist(labels) ==
    [items |-> [i \in 1..Len(labels) |-> "pending"], title |-> Running]

\* the title with the warning test ahead of the error test
updateChecklistTitleWarningFirst(its, oldTitle) ==
    LET count(st) == Cardinality({ i \in 1..Len(its) : its[i] = st })
    IN  IF count("pending") = 0 /\ count("testing") = 0
        THEN IF count("warning") > 0 THEN "Checks Complete (Warnings Found)"
             ELSE IF count("error") > 0 THEN "Checks Complete (Some Issues Found)"
             ELSE "All Checks Complete"
        ELSE IF count("testing") > 0 THEN Running
        ELSE oldTitle

updateChecklistTitle(its, oldTitle) ==
    LET count(st) == Cardinality({ i \in 1..Len(its) : its[i] = st })
    IN  IF count("pending") = 0 /\ count("testing") = 0
        THEN IF count("error") > 0 THEN "Checks Complete (Some Issues Found)"
             ELSE IF count("warning") > 0 THEN "Checks Complete (Warnings Found)"
             ELSE "All Checks Complete"
        ELSE IF count("testing") > 0 THEN Running
        ELSE oldTitle

\* the switch without its 'warning' case
statusClassNoWarning(status) ==
    IF status \in {"testing", "success", "error"} THEN status
    ELSE "pending"

\* the class the switch of updateCheckItem gives the item
statusClass(status) ==
    IF status \in {"testing", "success", "error", "warning"} THEN status
    ELSE "pending"

\* index is the data-index, counted from 0
updateCheckItem(cl, index, status) ==
    IF index + 1 \notin 1..Len(cl.items) THEN cl
    ELSE LET its == [cl.items EXCEPT ![index + 1] = statusClass(status)]
         IN  [items |-> its, title |-> updateChecklistTitle(its, cl.title)]

(***************************************************************************)
(* SecurityAuditApp: the sections of the report.                           *)
(***************************************************************************)
Section(type, status, details) ==
    [type |-> type, status |-> status, details |-> details]

wwwLines(analysis) ==
    CASE analysis.wwwRedirection = "to-www" ->
           << L("Non-www redirects to www version"),
              LU("Preferred URL: ", analysis.preferredUrl) >>
      [] analysis.wwwRedirection = "to-non-www" ->
           << L("www redirects to non-www version"),
              LU("Preferred URL: ", analysis.preferredUrl) >>
      [] analysis.wwwRedirection = "both-work" ->
           << L("Both www and non-www versions work (should pick one)") >>
      [] analysis.wwwRedirection = "unclear" ->
           << L("www/non-www redirection pattern unclear") >>
      [] OTHER -> << >>

\* the line of one cell under 'Detailed Test Results'
testLine(tests, key) ==
    IF key \notin DOMAIN tests THEN << >>
    ELSE LET test == tests[key]
         IN  << [L(key) EXCEPT
                   !.a = IF test.accessible THEN "accessible" ELSE "inaccessible",
                   !.u = IF test.redirected /\ test.finalUrl # NoUrl
                         THEN test.finalUrl ELSE NoUrl,
                   !.n = IF test.note THEN 1 ELSE 0] >>

addHttpsHttpResults(tr) ==
    LET analysis == tr.analysis
        ipLines == IF tr.ipAddress # << >>
                   THEN << [LS("Server IP: ", tr.ipAddress) EXCEPT
                              !.a = IF tr.isCloudflare
                                    THEN " (Protected by Cloudflare)" ELSE ""],
                           L("") >>
                   ELSE << >>
        overallStatus ==
            IF analysis.httpsWorking /\ analysis.httpRedirectsToHttps THEN "success"
            ELSE IF analysis.httpsWorking THEN "warning"
            ELSE "error"
    IN  Section("urls", overallStatus,
            ipLines
            \o << IF analysis.httpsWorking THEN L("HTTPS is working")
                  ELSE L("HTTPS not accessible") >>
            \o << IF analysis.httpRedirectsToHttps
                  THEN L("HTTP properly redirects to HTTPS")
                  ELSE L("HTTP does not redirect to HTTPS (security risk)") >>
            \o wwwLines(analysis)
            \o << L(""), L("Detailed Test Results:") >>
            \o testLine(tr.tests, "https-non-www") \o testLine(tr.tests, "https-www")
            \o testLine(tr.tests, "http-non-www") \o testLine(tr.tests, "http-www")
            \o << L(""),
                  IF overallStatus = "success"
                  THEN L("Excellent: HTTPS working and HTTP redirects properly")
                  ELSE IF overallStatus = "warning"
                  THEN L("Good: HTTPS working but HTTP redirect needs improvement")
                  ELSE L("Poor: HTTPS issues detected") >>)

\* UIHelpers.formatRobotsAnalysis
formatRobotsAnalysis(analysis) ==
    (IF Len(analysis.userAgents) > 0
     THEN << LN("User Agents: ", Len(analysis.userAgents)) >> ELSE << >>)
      \o (IF Len(analysis.disallowedPaths) > 0
          THEN << LN("Disallowed Paths: ", Len(analysis.disallowedPaths)) >>
          ELSE << >>)
      \o (IF Len(analysis.sitemaps) > 0
          THEN << LN("Sitemaps: ", Len(analysis.sitemaps)) >> ELSE << >>)
      \o (IF ~analysis.crawlDelay.null /\ analysis.crawlDelay.n # 0
          THEN << LN("Crawl Delay: ", analysis.crawlDelay.n) >> ELSE << >>)
      \o (IF analysis.hasWildcard
          THEN << L("Has wildcard (*) user-agent") >> ELSE << >>)

\* contentLines.length > 50
TruncateAt == 50

addRobotsResults(r) ==
    Section("robots", r.status,
        IF r.status = "success"
        THEN << L("robots.txt found and accessible") >>
               \o (IF r.payload THEN formatRobotsAnalysis(r.analysis) ELSE << >>)
               \o (IF contentLength(r.content) > 0
                   THEN LET shouldTruncate == Len(r.content) > TruncateAt
                            shown == IF shouldTruncate THEN TruncateAt
                                     ELSE Len(r.content)
                        IN  << L(""), L("File Content:"),
                               IF trimsToEmpty(r.content)
                               THEN L("(This robots.txt file is empty)")
                               ELSE LN("content box", shown),
                               LN("File size: ", r.size) >>
                              \o (IF shouldTruncate
                                  THEN << LN("Total lines: ", Len(r.content)) >>
                                  ELSE << >>)
                   ELSE << >>)
        ELSE << L("robots.txt not found or inaccessible") >>
               \o (IF Truthy(r.error) THEN << LA("Error: ", r.error) >> ELSE << >>))

addAnalyticsResults(r) ==
    Section("analytics", r.status,
        IF r.status = "success" /\ r.payload
        THEN LET ga  == r.analysis.googleAnalytics
                 gtm == r.analysis.googleTagManager
                 fb  == r.analysis.facebookPixel
                 hj  == r.analysis.hotjar
                 details ==
                    (IF ga.found
                     THEN << LS("Google Analytics: ", ga.versions) >>
                            \o (IF Len(ga.trackingIds) > 0
                                THEN << LS("   Tracking IDs: ", ga.trackingIds) >>
                                ELSE << >>)
                     ELSE << >>)
                      \o (IF gtm.found
                          THEN << L("Google Tag Manager") >>
                                 \o (IF Len(gtm.containerIds) > 0
                                     THEN << LS("   Container IDs: ",
                                                gtm.containerIds) >>
                                     ELSE << >>)
                          ELSE << >>)
                      \o (IF fb.found
                          THEN << L("Facebook Pixel") >>
                                 \o (IF Len(fb.pixelIds) > 0
                                     THEN << LS("   Pixel IDs: ", fb.pixelIds) >>
                                     ELSE << >>)
                          ELSE << >>)
                      \o (IF hj.found
                          THEN << L("Hotjar") >>
                                 \o (IF Len(hj.siteIds) > 0
                                     THEN << LS("   Site IDs: ", hj.siteIds) >>
                                     ELSE << >>)
                          ELSE << >>)
             IN  IF Len(details) = 0
                 THEN << L("No major analytics or tracking services detected") >>
                 ELSE details
        ELSE IF r.status = "success"
        THEN IF Len(r.summary) > 0 THEN r.summary
             ELSE << L("No major tracking detected") >>
        ELSE << L("Analytics check failed") >>
               \o (IF Truthy(r.error) THEN << LA("Error: ", r.error) >> ELSE << >>))

isHeadersSummary(line) == line.t = "Security Headers Analysis: "

isBlank(line) == line.t = "" /\ line.a = ""

\* a line the certificate section of parseSSLResults drops: it names a
\* security header or one of the words of the header breakdown
namesHeader(line) == line.t = "header breakdown"

parseSSLResults(sslDetails) ==
    LET n == Len(sslDetails)
        summaries == { i \in 1..n : isHeadersSummary(sslDetails[i]) }
        first == IF summaries = {} THEN n + 1
                 ELSE CHOOSE i \in summaries : \A j \in summaries : i <= j
        last == IF summaries = {} THEN 0
                ELSE CHOOSE i \in summaries : \A j \in summaries : j <= i
        keepCert(line) == ~namesHeader(line) /\ ~isBlank(line)
        keepHeader(line) == ~isHeadersSummary(line) /\ ~isBlank(line)
    IN  [certificateInfo |-> SelectSeq(SubSeq(sslDetails, 1, first - 1), keepCert),
         securityHeadersSummary |-> IF last = 0 THEN << >> ELSE << sslDetails[last] >>,
         securityHeaders |-> SelectSeq(SubSeq(sslDetails, first, n), keepHeader)]

addSSLResults(r) ==
    IF Len(r.details) = 0
    THEN Section("ssl", r.status, << L("SSL certificate information not available") >>)
    ELSE LET parsed == parseSSLResults(r.details)
         IN  Section("ssl", r.status,
                 parsed.certificateInfo
                 \o (IF parsed.securityHeadersSummary # << >>
                     THEN << L("") >> \o parsed.securityHeadersSummary ELSE << >>)
                 \o (IF Len(parsed.securityHeaders) > 0
                     THEN << L(""), L("Security Headers Details:") >>
                            \o parsed.securityHeaders
                     ELSE << >>))

addMetaResults(r) ==
    Section("meta", r.status,
        IF r.status = "success"
        THEN r.details
               \o (IF r.payload THEN << L(""), L("META TAG CONTENT:") >> ELSE << >>)
        ELSE << L("Meta tags check failed") >>
               \o (IF Truthy(r.error) THEN << LA("Error: ", r.error) >> ELSE << >>))

addNonDeveloperResults(r) ==
    Section("nonDeveloper", r.status,
        IF r.status \in Terminal
        THEN IF Len(r.details) > 0 THEN r.details
             ELSE IF r.status = "success"
             THEN << L("Content and style elements analyzed") >>
             ELSE IF r.status = "warning"
             THEN << L("Content and style elements have issues") >>
             ELSE << L("Content and style elements check failed") >>
                    \o (IF Truthy(r.error) THEN << LA("Error: ", r.error) >> ELSE << >>)
        ELSE << >>)

NoSection == Section("none", "none", << >>)

NoReport == [sections |-> << >>, timestamps |-> 0]

\* the accordion with the meta section under the SSL flag
assembleReportMetaUnderSsl(fl, tr, rs) ==
    LET present(c) == fl[c] /\ rs[c].status # "none"
    IN  [sections |->
            (IF present("content") THEN << addNonDeveloperResults(rs["content"]) >> ELSE << >>)
            \o << addHttpsHttpResults(tr) >>
            \o (IF present("robots") THEN << addRobotsResults(rs["robots"]) >> ELSE << >>)
            \o (IF present("analytics") THEN << addAnalyticsResults(rs["analytics"]) >> ELSE << >>)
            \o (IF present("ssl") THEN << addSSLResults(rs["ssl"]) >> ELSE << >>)
            \o (IF fl["ssl"] /\ rs["meta"].status # "none"
                THEN << addMetaResults(rs["meta"]) >> ELSE << >>),
         timestamps |-> 1]

\* the accordion runSecurityAudit builds after the delay
assembleReport(fl, tr, rs) ==
    LET present(c) == fl[c] /\ rs[c].status # "none"
    IN  [sections |->
            (IF present("content") THEN << addNonDeveloperResults(rs["content"]) >> ELSE << >>)
            \o << addHttpsHttpResults(tr) >>
            \o (IF present("robots") THEN << addRobotsResults(rs["robots"]) >> ELSE << >>)
            \o (IF present("analytics") THEN << addAnalyticsResults(rs["analytics"]) >> ELSE << >>)
            \o (IF present("ssl") THEN << addSSLResults(rs["ssl"]) >> ELSE << >>)
            \o (IF present("meta") THEN << addMetaResults(rs["meta"]) >> ELSE << >>),
         timestamps |-> 1]

(***************************************************************************)
(* SecurityAuditApp: the click handlers and runSecurityAudit.              *)
(***************************************************************************)
AllOff == [c \in OptionalSet |-> FALSE]

AllOn == [c \in OptionalSet |-> TRUE]

NoResults == [c \in OptionalSet |-> NoResult]

NoTestResults == InitialResults(NoUrl)

NothingMet == [c \in OptionalSet |-> "none"]

direct == [k |-> "ok", to |-> 0, cf |-> FALSE]

viaCdn == [k |-> "ok", to |-> 0, cf |-> TRUE]

toHttps == [k |-> "redirect", to |-> 1, cf |-> FALSE]

limited == [k |-> "nocors", to |-> 0, cf |-> FALSE]

failing == [k |-> "fail", to |-> 0, cf |-> FALSE]

\* the sites an audit run is pointed at
SiteProfiles ==
    { [probes |-> << viaCdn, toHttps, toHttps, toHttps >>,
       dns |-> [k |-> "answer", ip |-> <<"1", "0", "4", ".", "1", "6", ".", "0", ".", "1">>]],
      [probes |-> << direct, direct, direct, direct >>,
       dns |-> [k |-> "answer",
                ip |-> <<"9", "3", ".", "1", "8", "4", ".", "2", "1", "6", ".", "3", "4">>]],
      [probes |-> << failing, failing, direct, limited >>,
       dns |-> [k |-> "none", ip |-> << >>]],
      [probes |-> << failing, failing, failing, failing >>,
       dns |-> [k |-> "fail", ip |-> << >>]] }

\* what the awaited checker meets
OutcomesOf(c) ==
    IF c = "ssl" THEN SslOutcomes
    ELSE IF c = "content" THEN ContentOutcomes
    ELSE PageOutcomes

\* "ok", "issues", "http" or "reject"
outcomeKind(c, o) == IF c = "ssl" THEN o.k ELSE o

\* the checker call of runSecurityAudit for the optional checker c
checkerResult(c, o, msg) ==
    CASE c = "robots"    -> testRobotsUrl(o, msg, SampleRobots)
      [] c = "analytics" -> testAnalyticsTracking(o, msg, SamplePage)
      [] c = "ssl"       -> testSSLCertificate(o, msg)
      [] c = "meta"      -> testMetaTags(o, msg)
      [] OTHER           -> testNonDeveloperElements(o, msg)

\* the item status with 'warning' folded into 'error' for every checker
itemStatusTwoWay(c, r) == IF r.status = "success" THEN "success" ELSE "error"

\* robotsStatus, analyticsStatus, sslStatus, metaStatus, nonDevStatus
itemStatus(c, r) ==
    IF c \in {"ssl", "content"}
    THEN IF r.status = "success" THEN "success"
         ELSE IF r.status = "warning" THEN "warning" ELSE "error"
    ELSE IF r.status = "success" THEN "success" ELSE "error"

\* the result the catch block of an optional checker records
caughtResult(msg) == [NoResult EXCEPT !.status = "error", !.error = msg]

\* the optional checker the run turns to after the i-th: the next one
\* whose flag is set, or 0 when none is left
nextChecker(fl, i) ==
    LET later == { j \in (i + 1)..Len(Optional) : fl[Optional[j]] }
    IN  IF later = {} THEN 0 ELSE CHOOSE j \in later : \A k \in later : j <= k

pcAfter(fl, i) == IF nextChecker(fl, i) = 0 THEN "delay" ELSE "testing"

\* the checker call without its await: the run goes straight on
afterInvokeNoAwait == "status"

\* where the run stands after calling an optional checker: at the await
afterInvoke == "await"

Checklist == [items |-> items, title |-> title]

AppInit ==
    /\ pc = "idle"
    /\ button = "none"
    /\ checked \in [OptionalSet -> BOOLEAN]
    /\ buttonsDisabled = FALSE
    /\ currentDomain = << >>
    /\ netMsg = "Failed to fetch"
    /\ flags = AllOff
    /\ items = << >>
    /\ title = ""
    /\ checkIndex = 0
    /\ cur = 0
    /\ testResults = NoTestResults
    /\ res = NoResults
    /\ outstanding = {}
    /\ invoked = << >>
    /\ thrown = {}
    /\ met = NothingMet
    /\ fault = Undefined
    /\ report = NoReport
    /\ display = "empty"

UrlIdle ==
    /\ uIn = NoUrl
    /\ uPc = "idle"
    /\ uI = 0
    /\ uRes = NoTestResults

\* no call of RobotsChecker.testRobotsUrl under way
RobotsIdle ==
    /\ rIn = << >>
    /\ rPc = "idle"
    /\ rRes = NoResult
    /\ rSec = NoSection

\* no call of AnalyticsChecker.testAnalyticsTracking under way
AnalyticsIdle ==
    /\ aIn = << >>
    /\ aPc = "idle"
    /\ aRes = NoResult
    /\ aSec = NoSection

\* no call of SSLChecker.testSSLCertificate under way
SslIdle ==
    /\ sSite = {}
    /\ sPc = "idle"
    /\ sConn = checkSSLConnection(FALSE, Undefined)
    /\ sSec = NoSecurityAnalysis
    /\ sApi = ApiDown
    /\ sCert = NoCert
    /\ sLog = << >>
    /\ sRes = NoResult

\* no call of NonDeveloperChecker.testNonDeveloperElements under way
ContentIdle ==
    /\ nIn = ContentPage("fail", "fail", << >>)
    /\ nPc = "idle"
    /\ nRes = NoResult
    /\ nSec = NoSection

\* no call of UrlChecker.testSingleUrl under way
ProbeIdle ==
    /\ pIn = [url |-> NoUrl, urls |-> << >>]
    /\ pPc = "idle"
    /\ pLog = << >>
    /\ pCell = NoCell

\* the popup is not open
PopupIdle ==
    /\ fUrls = << >>
    /\ fI = 0
    /\ fPc = "idle"
    /\ fLog = << >>
    /\ fRet = "undefined"

MaxHandlers == 2

Handlers == 1..MaxHandlers

\* no click handler is live
ClicksIdle ==
    /\ hPc = [i \in Handlers |-> "idle"]
    /\ hButton = [i \in Handlers |-> "none"]
    /\ hDisabled = FALSE
    /\ hDomain = << >>
    /\ hLog = << >>

Init ==
    AppInit /\ UrlIdle /\ RobotsIdle /\ AnalyticsIdle /\ SslIdle /\ ContentIdle
        /\ ProbeIdle
        /\ PopupIdle
        /\ ClicksIdle

runVars == <<flags, items, title, checkIndex, cur, testResults, res,
             outstanding, invoked, thrown, met, report>>

\* a click on 'Run All' or 'Run Selected': the handler awaits getCurrentDomain
Click(b) ==
    /\ pc = "idle"
    /\ ~buttonsDisabled
    /\ pc' = "resolving"
    /\ button' = b
    /\ UNCHANGED <<checked, buttonsDisabled, currentDomain, netMsg, runVars,
                   fault, display>>

ClickRunAll == Click("all")

ClickRunSelected == Click("selected")

\* the user ticks or unticks an option between two runs
ToggleOption ==
    /\ pc = "idle"
    /\ \E c \in OptionalSet : checked' = [checked EXCEPT ![c] = ~checked[c]]
    /\ UNCHANGED <<pc, button, buttonsDisabled, currentDomain, netMsg, runVars,
                   fault, display>>

\* getCurrentDomain throws (no tab URL): the handler's catch shows the
\* error and its finally re-enables the buttons
TabLookupFails ==
    /\ pc = "resolving"
    /\ pc' = "idle"
    /\ currentDomain' = << >>
    /\ fault' = "No active tab URL found"
    /\ display' = "error"
    /\ buttonsDisabled' = FALSE
    /\ UNCHANGED <<button, checked, netMsg, runVars>>

\* the tab URL has an empty hostname: alert and return
TabHasNoHost ==
    /\ pc = "resolving"
    /\ pc' = "idle"
    /\ currentDomain' = << >>
    /\ buttonsDisabled' = FALSE
    /\ UNCHANGED <<button, checked, netMsg, runVars, fault, display>>

\* the tab has a hostname: the handler disables the buttons, clears the
\* results, ticks every option for 'Run All', and runSecurityAudit reads
\* the flags and shows the checklist
TabResolved ==
    /\ pc = "resolving"
    /\ \E h \in Hosts, m \in Msgs :
         /\ currentDomain' = h
         /\ netMsg' = m
    /\ buttonsDisabled' = TRUE
    /\ checked' = IF button = "all" THEN AllOn ELSE checked
    /\ flags' = checked'
    /\ LET cl == createChecklist(allChecks(flags'))
       IN  items' = cl.items /\ title' = cl.title
    /\ display' = "checklist"
    /\ checkIndex' = 0
    /\ cur' = 0
    /\ testResults' = NoTestResults
    /\ res' = NoResults
    /\ outstanding' = {}
    /\ invoked' = << >>
    /\ thrown' = {}
    /\ met' = NothingMet
    /\ report' = NoReport
    /\ fault' = Undefined
    /\ pc' = "topoTesting0"
    /\ UNCHANGED button

cleanDomain == stripWww(currentDomain)

\* updateCheckItem(checklistContainer, index, status) as a step of the run
SetItem(index, status) ==
    LET cl == updateCheckItem(Checklist, index, status)
    IN  items' = cl.items /\ title' = cl.title

TopoTesting0 ==
    /\ pc = "topoTesting0"
    /\ SetItem(checkIndex, "testing")
    /\ pc' = "topoTesting1"
    /\ UNCHANGED <<button, checked, buttonsDisabled, currentDomain, netMsg, flags,
                   checkIndex, cur, testResults, res, outstanding, invoked,
                   thrown, met, fault, report, display>>

TopoTesting1 ==
    /\ pc = "topoTesting1"
    /\ SetItem(checkIndex + 1, "testing")
    /\ pc' = "topoInvoke"
    /\ UNCHANGED <<button, checked, buttonsDisabled, currentDomain, netMsg, flags,
                   checkIndex, cur, testResults, res, outstanding, invoked,
                   thrown, met, fault, report, display>>

\* testResults = await UrlChecker.testUrl(...): the call
InvokeTopology ==
    /\ pc = "topoInvoke"
    /\ outstanding' = outstanding \cup {"topology"}
    /\ invoked' = Append(invoked, "topology")
    /\ pc' = "topoAwait"
    /\ UNCHANGED <<button, checked, buttonsDisabled, currentDomain, netMsg, flags,
                   items, title, checkIndex, cur, testResults, res, thrown, met,
                   fault, report, display>>

TopologyReturns ==
    /\ pc = "topoAwait"
    /\ ~testUrlThrows(Url("https", cleanDomain))
    /\ \E site \in SiteProfiles :
         testResults' = testUrl(Url("https", cleanDomain), site)
    /\ outstanding' = outstanding \ {"topology"}
    /\ pc' = "topoStatus0"
    /\ UNCHANGED <<button, checked, buttonsDisabled, currentDomain, netMsg, flags,
                   items, title, checkIndex, cur, res, invoked, thrown, met, fault,
                   report, display>>

\* testUrl rejects: control passes to the outer catch
TopologyThrows ==
    /\ pc = "topoAwait"
    /\ testUrlThrows(Url("https", cleanDomain))
    /\ outstanding' = outstanding \ {"topology"}
    /\ thrown' = thrown \cup {"topology"}
    /\ fault' = "Invalid URL"
    /\ pc' = "outerCatch"
    /\ UNCHANGED <<met, button, checked, buttonsDisabled, currentDomain, netMsg, flags,
                   items, title, checkIndex, cur, testResults, res, invoked,
                   report, display>>

TopoStatus0 ==
    /\ pc = "topoStatus0"
    /\ SetItem(checkIndex,
               IF testResults.analysis.httpsWorking THEN "success" ELSE "error")
    /\ checkIndex' = checkIndex + 1
    /\ pc' = "topoStatus1"
    /\ UNCHANGED <<button, checked, buttonsDisabled, currentDomain, netMsg, flags,
                   cur, testResults, res, outstanding, invoked, thrown, met, fault,
                   report, display>>

TopoStatus1 ==
    /\ pc = "topoStatus1"
    /\ SetItem(checkIndex,
               IF testResults.analysis.httpRedirectsToHttps THEN "success" ELSE "warning")
    /\ checkIndex' = checkIndex + 1
    /\ cur' = nextChecker(flags, 0)
    /\ pc' = pcAfter(flags, 0)
    /\ UNCHANGED <<button, checked, buttonsDisabled, currentDomain, netMsg, flags,
                   testResults, res, outstanding, invoked, thrown, met, fault,
                   report, display>>

\* the 'testing' transition at the head of an optional checker's try block
CheckerTesting ==
    /\ pc = "testing"
    /\ SetItem(checkIndex, "testing")
    /\ pc' = "invoke"
    /\ UNCHANGED <<button, checked, buttonsDisabled, currentDomain, netMsg, flags,
                   checkIndex, cur, testResults, res, outstanding, invoked,
                   thrown, met, fault, report, display>>

CheckerInvoke ==
    /\ pc = "invoke"
    /\ outstanding' = outstanding \cup {Optional[cur]}
    /\ invoked' = Append(invoked, Optional[cur])
    /\ pc' = afterInvoke
    /\ UNCHANGED <<button, checked, buttonsDisabled, currentDomain, netMsg, flags,
                   items, title, checkIndex, cur, testResults, res, thrown, met,
                   fault, report, display>>

\* the awaited checker resolves with its result
CheckerReturns ==
    /\ pc = "await"
    /\ \E o \in OutcomesOf(Optional[cur]) :
         /\ res' = [res EXCEPT ![Optional[cur]] = checkerResult(Optional[cur], o, netMsg)]
         /\ met' = [met EXCEPT ![Optional[cur]] = outcomeKind(Optional[cur], o)]
    /\ outstanding' = outstanding \ {Optional[cur]}
    /\ pc' = "status"
    /\ UNCHANGED <<button, checked, buttonsDisabled, currentDomain, netMsg, flags,
                   items, title, checkIndex, cur, testResults, invoked, thrown,
                   fault, report, display>>

\* the awaited checker rejects: control passes to the checker's catch block
CheckerThrows ==
    /\ pc = "await"
    /\ outstanding' = outstanding \ {Optional[cur]}
    /\ thrown' = thrown \cup {Optional[cur]}
    /\ pc' = "catch"
    /\ UNCHANGED <<met, button, checked, buttonsDisabled, currentDomain, netMsg, flags,
                   items, title, checkIndex, cur, testResults, res, invoked,
                   fault, report, display>>

\* the terminal transition of the try block, and checkIndex++
CheckerStatus ==
    /\ pc = "status"
    /\ SetItem(checkIndex, itemStatus(Optional[cur], res[Optional[cur]]))
    /\ checkIndex' = checkIndex + 1
    /\ cur' = nextChecker(flags, cur)
    /\ pc' = pcAfter(flags, cur)
    /\ UNCHANGED <<button, checked, buttonsDisabled, currentDomain, netMsg, flags,
                   testResults, res, outstanding, invoked, thrown, met, fault,
                   report, display>>

\* the catch block of an optional checker, and checkIndex++
CheckerCatch ==
    /\ pc = "catch"
    /\ SetItem(checkIndex, "error")
    /\ res' = [res EXCEPT ![Optional[cur]] = caughtResult(netMsg)]
    /\ checkIndex' = checkIndex + 1
    /\ cur' = nextChecker(flags, cur)
    /\ pc' = pcAfter(flags, cur)
    /\ UNCHANGED <<button, checked, buttonsDisabled, currentDomain, netMsg, flags,
                   testResults, outstanding, invoked, thrown, met, fault, report,
                   display>>

\* await this.delay(500) ends; the accordion is built and shown in place
\* of the checklist
AssembleReport ==
    /\ pc = "delay"
    /\ report' = assembleReport(flags, testResults, res)
    /\ display' = "report"
    /\ pc' = "finally"
    /\ UNCHANGED <<button, checked, buttonsDisabled, currentDomain, netMsg, flags,
                   items, title, checkIndex, cur, testResults, res, outstanding,
                   invoked, thrown, met, fault>>

\* the outer catch shows 'Audit Failed' in place of the checklist
OuterCatch ==
    /\ pc = "outerCatch"
    /\ display' = "auditFailed"
    /\ pc' = "finally"
    /\ UNCHANGED <<button, checked, buttonsDisabled, currentDomain, netMsg, flags,
                   items, title, checkIndex, cur, testResults, res, outstanding,
                   invoked, thrown, met, fault, report>>

\* runSecurityAudit has returned: the handler's finally re-enables the
\* buttons, and the locals of the run go out of scope
HandlerFinally ==
    /\ pc = "finally"
    /\ buttonsDisabled' = FALSE
    /\ pc' = "idle"
    /\ netMsg' = "Failed to fetch"
    /\ flags' = AllOff
    /\ items' = << >>
    /\ title' = ""
    /\ checkIndex' = 0
    /\ cur' = 0
    /\ testResults' = NoTestResults
    /\ res' = NoResults
    /\ outstanding' = {}
    /\ invoked' = << >>
    /\ thrown' = {}
    /\ met' = NothingMet
    /\ report' = NoReport
    /\ UNCHANGED <<button, checked, currentDomain, fault, display>>

AppNext ==
    \/ ClickRunAll
    \/ ClickRunSelected
    \/ ToggleOption
    \/ TabLookupFails
    \/ TabHasNoHost
    \/ TabResolved
    \/ TopoTesting0
    \/ TopoTesting1
    \/ InvokeTopology
    \/ TopologyReturns
    \/ TopologyThrows
    \/ TopoStatus0
    \/ TopoStatus1
    \/ CheckerTesting
    \/ CheckerInvoke
    \/ CheckerReturns
    \/ CheckerThrows
    \/ CheckerStatus
    \/ CheckerCatch
    \/ AssembleReport
    \/ OuterCatch
    \/ HandlerFinally

Next == AppNext /\ UNCHANGED <<urlVars, robVars, anaVars, sslVars, conVars,
                 proVars,
                 popVars,
                 clkVars>>

Spec == Init /\ [][Next]_vars

(***************************************************************************)
(* UrlChecker.testUrl, probe by probe.                                     *)
(***************************************************************************)
AppIdle == AppInit /\ checked = AllOff

UrlInit ==
    /\ AppIdle
    /\ RobotsIdle
    /\ AnalyticsIdle
    /\ SslIdle
    /\ ContentIdle
    /\ ProbeIdle
    /\ PopupIdle
    /\ ClicksIdle
    /\ \E h \in Hosts : uIn = Url("https", h)
    /\ uPc = "loop"
    /\ uI = 1
    /\ uRes = InitialResults(uIn)

uUrls == urlsToTest(stripWww(uIn.host))

\* one turn of the loop: the probe, its key, the cell
UProbe ==
    /\ uPc = "loop"
    /\ ValidHost(uUrls[uI].host)
    /\ \E o \in ProbeOutcomes :
         uRes' = storeTest(uRes, getUrlKey(uUrls[uI]),
                           testSingleUrl(uUrls[uI], uUrls, o))
    /\ uI' = uI + 1
    /\ uPc' = IF uI = 4 THEN "analyze" ELSE "loop"
    /\ UNCHANGED uIn

\* both requests of the probe fail on the URL, then new URL() in getUrlKey
\* throws and testUrl rejects
UKeyThrows ==
    /\ uPc = "loop"
    /\ ~ValidHost(uUrls[uI].host)
    /\ uPc' = "threw"
    /\ UNCHANGED <<uIn, uI, uRes>>

UAnalyze ==
    /\ uPc = "analyze"
    /\ uRes' = analyzeResults(uRes)
    /\ uPc' = "ip"
    /\ UNCHANGED <<uIn, uI>>

UIpLookup ==
    /\ uPc = "ip"
    /\ \E dns \in DnsOutcomes : uRes' = withIpInfo(uRes, dns)
    /\ uPc' = "done"
    /\ UNCHANGED <<uIn, uI>>

UrlNext ==
    \/ UProbe
    \/ UKeyThrows
    \/ UAnalyze
    \/ UIpLookup

NextUrl == UrlNext /\ UNCHANGED <<appVars, robVars, anaVars, sslVars, conVars,
                 proVars,
                 popVars,
                 clkVars>>

SpecUrl == UrlInit /\ [][NextUrl]_vars

(***************************************************************************)
(* RobotsChecker.testRobotsUrl on one body, and its report section.        *)
(***************************************************************************)
MaxLines == 3

RECURSIVE Bodies(_)
Bodies(n) ==
    IF n = 0 THEN {<< >>}
    ELSE LET shorter == Bodies(n - 1)
         IN  shorter \cup { Append(b, l) : b \in { c \in shorter : Len(c) = n - 1 },
                                         l \in RobotsLines }

\* a fetched body has at least one line
RobotsInit ==
    /\ AppIdle
    /\ UrlIdle
    /\ AnalyticsIdle
    /\ SslIdle
    /\ ContentIdle
    /\ ProbeIdle
    /\ PopupIdle
    /\ ClicksIdle
    /\ rIn \in Bodies(MaxLines) \ {<< >>}
    /\ rPc = "fetch"
    /\ rRes = NoResult
    /\ rSec = NoSection

\* the request is answered, and the body analysed when the answer is 2xx
RFetch ==
    /\ rPc = "fetch"
    /\ \E o \in PageOutcomes, m \in Msgs : rRes' = testRobotsUrl(o, m, rIn)
    /\ rPc' = "report"
    /\ UNCHANGED <<rIn, rSec>>

RReport ==
    /\ rPc = "report"
    /\ rSec' = addRobotsResults(rRes)
    /\ rPc' = "done"
    /\ UNCHANGED <<rIn, rRes>>

RobotsNext ==
    \/ RFetch
    \/ RReport

NextRobots == RobotsNext /\ UNCHANGED <<appVars, urlVars, anaVars, sslVars, conVars,
                 proVars,
                 popVars,
                 clkVars>>

SpecRobots == RobotsInit /\ [][NextRobots]_vars

(***************************************************************************)
(* AnalyticsChecker.testAnalyticsTracking on one page, and its report      *)
(* section.                                                                *)
(***************************************************************************)
MaxTokens == 4

RECURSIVE Pages(_)
Pages(n) ==
    IF n = 0 THEN {<< >>}
    ELSE LET shorter == Pages(n - 1)
         IN  shorter \cup { Append(h, t) : h \in { c \in shorter : Len(c) = n - 1 },
                                         t \in PageTokens }

AnalyticsInit ==
    /\ AppIdle
    /\ UrlIdle
    /\ RobotsIdle
    /\ SslIdle
    /\ ContentIdle
    /\ ProbeIdle
    /\ PopupIdle
    /\ ClicksIdle
    /\ aIn \in Pages(MaxTokens)
    /\ aPc = "fetch"
    /\ aRes = NoResult
    /\ aSec = NoSection

\* the request is answered, and the page analysed when the answer is 2xx
AFetch ==
    /\ aPc = "fetch"
    /\ \E o \in PageOutcomes, m \in Msgs :
         aRes' = testAnalyticsTracking(o, m, aIn)
    /\ aPc' = "report"
    /\ UNCHANGED <<aIn, aSec>>

AReport ==
    /\ aPc = "report"
    /\ aSec' = addAnalyticsResults(aRes)
    /\ aPc' = "done"
    /\ UNCHANGED <<aIn, aRes>>

AnalyticsNext ==
    \/ AFetch
    \/ AReport

NextAnalytics == AnalyticsNext /\ UNCHANGED <<appVars, urlVars, robVars, sslVars, conVars,
                 proVars,
                 popVars,
                 clkVars>>

SpecAnalytics == AnalyticsInit /\ [][NextAnalytics]_vars

(***************************************************************************)
(* SSLChecker.testSSLCertificate, request by request.                      *)
(***************************************************************************)
SslInit ==
    /\ AppIdle
    /\ UrlIdle
    /\ RobotsIdle
    /\ AnalyticsIdle
    /\ ContentIdle
    /\ ProbeIdle
    /\ PopupIdle
    /\ ClicksIdle
    /\ sSite \in SUBSET HeaderSet
    /\ sPc = "connect"
    /\ sConn = checkSSLConnection(FALSE, Undefined)
    /\ sSec = NoSecurityAnalysis
    /\ sApi = ApiDown
    /\ sCert = NoCert
    /\ sLog = << >>
    /\ sRes = NoResult

Started(tier) == [e |-> "start", tier |-> tier, success |-> FALSE]

Ended(tier, success) == [e |-> "end", tier |-> tier, success |-> success]

\* await this.checkSSLConnection(domain), and the early return
SConnect ==
    /\ sPc = "connect"
    /\ \E ok \in BOOLEAN, m \in Msgs :
         /\ sConn' = checkSSLConnection(ok, m)
         /\ IF ok
            THEN sPc' = "headers" /\ sRes' = sRes
            ELSE sPc' = "done" /\ sRes' = sslUnreachable(checkSSLConnection(ok, m))
    /\ UNCHANGED <<sSite, sSec, sApi, sCert, sLog>>

\* await this.validateSSLHeaders(domain)
SHeaders ==
    /\ sPc = "headers"
    /\ \E ok \in BOOLEAN, m \in Msgs : sSec' = validateSSLHeaders(ok, sSite, m)
    /\ sPc' = "tier1"
    /\ UNCHANGED <<sSite, sConn, sApi, sCert, sLog, sRes>>

\* getSSLCertificateDetails calls the tier
StartTier(tier, at, next) ==
    /\ sPc = at
    /\ sLog' = Append(sLog, Started(tier))
    /\ sPc' = next
    /\ UNCHANGED <<sSite, sConn, sSec, sApi, sCert, sRes>>

\* the tier returns result: getSSLCertificateDetails returns it when it is
\* a success or the tier is the last, and goes on to the next tier otherwise
EndTier(tier, result) ==
    /\ sLog' = Append(sLog, Ended(tier, result.success))
    /\ sCert' = result
    /\ sPc' = IF result.success \/ tier = 3 THEN "combine"
              ELSE IF tier = 1 THEN "tier2" ELSE "tier3"

STier1Start == StartTier(1, "tier1", "tier1wait")

STier1End ==
    /\ sPc = "tier1wait"
    /\ \E api \in ApiOutcomes :
         /\ sApi' = api
         /\ EndTier(1, trySSLLabsAPI(api))
    /\ UNCHANGED <<sSite, sConn, sSec, sRes>>

STier2Start == StartTier(2, "tier2", "tier2wait")

STier2End ==
    /\ sPc = "tier2wait"
    /\ \E ok \in BOOLEAN : EndTier(2, tryAlternativeSSLCheck(ok, sSite))
    /\ UNCHANGED <<sSite, sConn, sSec, sApi, sRes>>

STier3Start == StartTier(3, "tier3", "tier3fetch")

\* the HEAD request of basicSSLValidation
STier3Fetch ==
    /\ sPc = "tier3fetch"
    /\ \/ /\ sPc' = "tier3headers"
          /\ UNCHANGED <<sCert, sLog>>
       \/ EndTier(3, basicSSLValidation(FALSE, NoSecurityAnalysis))
    /\ UNCHANGED <<sSite, sConn, sSec, sApi, sRes>>

\* the call of validateSSLHeaders in basicSSLValidation
STier3End ==
    /\ sPc = "tier3headers"
    /\ \E ok \in BOOLEAN, m \in Msgs :
         EndTier(3, basicSSLValidation(TRUE, validateSSLHeaders(ok, sSite, m)))
    /\ UNCHANGED <<sSite, sConn, sSec, sApi, sRes>>

SCombine ==
    /\ sPc = "combine"
    /\ sRes' = sslCombined(sSec, sCert)
    /\ sPc' = "done"
    /\ UNCHANGED <<sSite, sConn, sSec, sApi, sCert, sLog>>

SslNext ==
    \/ SConnect
    \/ SHeaders
    \/ STier1Start
    \/ STier1End
    \/ STier2Start
    \/ STier2End
    \/ STier3Start
    \/ STier3Fetch
    \/ STier3End
    \/ SCombine

NextSsl == SslNext /\ UNCHANGED <<appVars, urlVars, robVars, anaVars, conVars,
                 proVars,
                 popVars,
                 clkVars>>

SpecSsl == SslInit /\ [][NextSsl]_vars

(***************************************************************************)
(* NonDeveloperChecker.testNonDeveloperElements on one page, and its       *)
(* report section.                                                         *)
(***************************************************************************)
MaxLinks == 2

RECURSIVE LinkLists(_)
LinkLists(n) ==
    IF n = 0 THEN {<< >>}
    ELSE LET shorter == LinkLists(n - 1)
         IN  shorter \cup { Append(ls, l) : ls \in { c \in shorter : Len(c) = n - 1 },
                                          l \in PageLinks }

ContentInit ==
    /\ AppIdle
    /\ UrlIdle
    /\ RobotsIdle
    /\ AnalyticsIdle
    /\ SslIdle
    /\ ProbeIdle
    /\ PopupIdle
    /\ ClicksIdle
    /\ \E c \in CheckOutcomes, w \in CheckOutcomes, ls \in LinkLists(MaxLinks) :
         nIn = ContentPage(c, w, ls)
    /\ nPc = "fetch"
    /\ nRes = NoResult
    /\ nSec = NoSection

\* the request is answered, and the page analysed when the answer is 2xx
NFetch ==
    /\ nPc = "fetch"
    /\ \E o \in PageOutcomes, m \in Msgs : nRes' = contentResult(o, m, nIn)
    /\ nPc' = "report"
    /\ UNCHANGED <<nIn, nSec>>

NReport ==
    /\ nPc = "report"
    /\ nSec' = addNonDeveloperResults(nRes)
    /\ nPc' = "done"
    /\ UNCHANGED <<nIn, nRes>>

ContentNext ==
    \/ NFetch
    \/ NReport

NextContent ==
    ContentNext /\ UNCHANGED <<appVars, urlVars, robVars, anaVars, sslVars,
                 proVars,
                 popVars,
                 clkVars>>

SpecContent == ContentInit /\ [][NextContent]_vars

(***************************************************************************)
(* UrlChecker.testSingleUrl, request by request.                           *)
(***************************************************************************)
ProbeInit ==
    /\ AppIdle
    /\ UrlIdle
    /\ RobotsIdle
    /\ AnalyticsIdle
    /\ SslIdle
    /\ ContentIdle
    /\ PopupIdle
    /\ ClicksIdle
    /\ \E h \in Hosts, i \in 1..4 :
         pIn = [url |-> urlsToTest(stripWww(h))[i], urls |-> urlsToTest(stripWww(h))]
    /\ pPc = "primary"
    /\ pLog = << >>
    /\ pCell = NoCell

Request(mode, threw) == [mode |-> mode, threw |-> threw]

\* the outcomes of ProbeOutcomes the primary request ends the probe with
Answered == { o \in ProbeOutcomes : o.k \in {"ok", "redirect", "moved"} }

\* await fetch(url, {method: 'HEAD', redirect: 'follow'}): answered, or it
\* throws and the catch block is entered
PPrimary ==
    /\ pPc = "primary"
    /\ \/ /\ ValidHost(pIn.url.host)
          /\ \E o \in Answered : pCell' = testSingleUrl(pIn.url, pIn.urls, o)
          /\ pLog' = Append(pLog, Request("follow", FALSE))
          /\ pPc' = "done"
       \/ /\ pLog' = Append(pLog, Request("follow", TRUE))
          /\ pPc' = "retry"
          /\ pCell' = pCell
    /\ UNCHANGED pIn

\* await fetch(url, {method: 'HEAD', mode: 'no-cors'}): answered, or it
\* throws too
PRetry ==
    /\ pPc = "retry"
    /\ \/ /\ ValidHost(pIn.url.host)
          /\ pCell' = testSingleUrl(pIn.url, pIn.urls, limited)
          /\ pLog' = Append(pLog, Request("no-cors", FALSE))
       \/ /\ pCell' = testSingleUrl(pIn.url, pIn.urls, failing)
          /\ pLog' = Append(pLog, Request("no-cors", TRUE))
    /\ pPc' = "done"
    /\ UNCHANGED pIn

ProbeNext ==
    \/ PPrimary
    \/ PRetry

NextProbe ==
    ProbeNext /\ UNCHANGED <<appVars, urlVars, robVars, anaVars, sslVars, conVars,
                 popVars,
                 clkVars>>

SpecProbe == ProbeInit /\ [][NextProbe]_vars

(***************************************************************************)
(* popup.js: findFirstValidUrl on the candidate list of runAutoDetect.     *)
(***************************************************************************)
MaxCandidates == 3

\* the candidates runAutoDetect generates
DevUrls ==
    { "https://stephenshouse.dev.icgonline.co.uk/", "https://dev.example.com/",
      "https://example.dev.icgonline.co.uk/" }

RECURSIVE CandidateLists(_)
CandidateLists(n) ==
    IF n = 0 THEN {<< >>}
    ELSE LET shorter == CandidateLists(n - 1)
         IN  shorter \cup { Append(l, u) : l \in { c \in shorter : Len(c) = n - 1 },
                                         u \in DevUrls }

\* the status codes a candidate answers with
Statuses == {200, 204, 301, 401, 403, 404, 500, 502, 503}

\* response.ok
ok(status) == status >= 200 /\ status <= 299

\* the test with the four error codes left out
qualifiesOkOnly(status) == ok(status)

\* response.ok || [401, 403, 500, 503].includes(response.status)
qualifies(status) == ok(status) \/ status \in {401, 403, 500, 503}

Pinged(i, k, status) == [i |-> i, k |-> k, status |-> status]

PopupInit ==
    /\ AppIdle
    /\ UrlIdle
    /\ RobotsIdle
    /\ AnalyticsIdle
    /\ SslIdle
    /\ ContentIdle
    /\ ProbeIdle
    /\ ClicksIdle
    /\ fUrls \in CandidateLists(MaxCandidates)
    /\ fI = 1
    /\ fPc = "loop"
    /\ fLog = << >>
    /\ fRet = "undefined"

\* the request of one turn is answered: return the candidate or go on
FAnswer ==
    /\ fPc = "loop"
    /\ fI <= Len(fUrls)
    /\ \E status \in Statuses :
         /\ fLog' = Append(fLog, Pinged(fI, "answer", status))
         /\ IF qualifies(status)
            THEN fRet' = fUrls[fI] /\ fPc' = "done" /\ fI' = fI
            ELSE fRet' = fRet /\ fPc' = fPc /\ fI' = fI + 1
    /\ UNCHANGED fUrls

\* fetch rejects (no such host, connection refused): the catch, next turn
FThrow ==
    /\ fPc = "loop"
    /\ fI <= Len(fUrls)
    /\ fLog' = Append(fLog, Pinged(fI, "throw", 0))
    /\ fI' = fI + 1
    /\ UNCHANGED <<fUrls, fPc, fRet>>

\* the timer aborts the request after 2500 ms: fetch rejects with AbortError
FTimeout ==
    /\ fPc = "loop"
    /\ fI <= Len(fUrls)
    /\ fLog' = Append(fLog, Pinged(fI, "timeout", 0))
    /\ fI' = fI + 1
    /\ UNCHANGED <<fUrls, fPc, fRet>>

\* the loop is over: return null
FReturnNull ==
    /\ fPc = "loop"
    /\ fI > Len(fUrls)
    /\ fRet' = "null"
    /\ fPc' = "done"
    /\ UNCHANGED <<fUrls, fI, fLog>>

PopupNext ==
    \/ FAnswer
    \/ FThrow
    \/ FTimeout
    \/ FReturnNull

NextPopup ==
    PopupNext /\ UNCHANGED <<appVars, urlVars, robVars, anaVars, sslVars, conVars,
                             proVars,
                 clkVars>>

SpecPopup == PopupInit /\ [][NextPopup]_vars

(***************************************************************************)
(* The two click handlers of setupEventListeners, as many at a time as the *)
(* clicks start: each awaits getCurrentDomain, then runSecurityAudit.      *)
(***************************************************************************)
MaxEvents == 4

ClicksInit ==
    /\ AppIdle
    /\ UrlIdle
    /\ RobotsIdle
    /\ AnalyticsIdle
    /\ SslIdle
    /\ ContentIdle
    /\ ProbeIdle
    /\ PopupIdle
    /\ hPc = [i \in Handlers |-> "idle"]
    /\ hButton = [i \in Handlers |-> "none"]
    /\ hDisabled = FALSE
    /\ hDomain \in Hosts \cup {<< >>}
    /\ hLog = << >>

RunEvent(e, i) == [e |-> e, handler |-> i]

\* a click on an enabled button starts a handler, which awaits
\* getCurrentDomain
HClick(i, b) ==
    /\ hPc[i] = "idle"
    /\ ~hDisabled
    /\ Len(hLog) < MaxEvents
    /\ hPc' = [hPc EXCEPT ![i] = "lookup"]
    /\ hButton' = [hButton EXCEPT ![i] = b]
    /\ UNCHANGED <<hDisabled, hDomain, hLog>>

HClickRunAll == \E i \in Handlers : HClick(i, "all")

HClickRunSelected == \E i \in Handlers : HClick(i, "selected")

\* getCurrentDomain throws: currentDomain = '', the handler's catch, and its
\* finally re-enables both buttons
HLookupFails ==
    \E i \in Handlers :
        /\ hPc[i] = "lookup"
        /\ hDomain' = << >>
        /\ hDisabled' = FALSE
        /\ hPc' = [hPc EXCEPT ![i] = "idle"]
        /\ UNCHANGED <<hButton, hLog>>

\* the tab URL has an empty hostname: alert, return, finally
HNoHost ==
    \E i \in Handlers :
        /\ hPc[i] = "lookup"
        /\ hDomain' = << >>
        /\ hDisabled' = FALSE
        /\ hPc' = [hPc EXCEPT ![i] = "idle"]
        /\ UNCHANGED <<hButton, hLog>>

\* the lookup resolves with a hostname: the handler disables both buttons
\* and calls runSecurityAudit, which it awaits
HResolved ==
    \E i \in Handlers, h \in Hosts :
        /\ hPc[i] = "lookup"
        /\ hDomain' = h
        /\ hDisabled' = TRUE
        /\ hLog' = Append(hLog, RunEvent("start", i))
        /\ hPc' = [hPc EXCEPT ![i] = "running"]
        /\ UNCHANGED hButton

\* runSecurityAudit settles: the handler's finally re-enables both buttons
HRunEnds ==
    \E i \in Handlers :
        /\ hPc[i] = "running"
        /\ hDisabled' = FALSE
        /\ hLog' = Append(hLog, RunEvent("end", i))
        /\ hPc' = [hPc EXCEPT ![i] = "idle"]
        /\ UNCHANGED <<hButton, hDomain>>

ClicksNext ==
    \/ HClickRunAll
    \/ HClickRunSelected
    \/ HLookupFails
    \/ HNoHost
    \/ HResolved
    \/ HRunEnds

NextClicks ==
    ClicksNext /\ UNCHANGED <<appVars, urlVars, robVars, anaVars, sslVars, conVars,
                              proVars, popVars>>

SpecClicks == ClicksInit /\ [][NextClicks]_vars

(***************************************************************************)
(* Properties of the orchestrator (Spec).                                  *)
(***************************************************************************)
InvokedSet == { invoked[i] : i \in 1..Len(invoked) }

Enabled == { c \in OptionalSet : flags[c] }

\* the optional checkers whose flag is set, in declaration order
RECURSIVE enabledFrom(_, _)
enabledFrom(fl, i) ==
    IF i > Len(Optional) THEN << >>
    ELSE (IF fl[Optional[i]] THEN << Optional[i] >> ELSE << >>) \o enabledFrom(fl, i + 1)

RunEnded == pc = "finally"

\* C1: a checker whose invocation throws gets an error-status result that
\* carries the fault's message, every remaining enabled checker is still
\* invoked, and no run is aborted by the fault of a checker (topology
\* included).
FaultIsolation ==
    /\ \A c \in thrown \cap OptionalSet :
         ~(pc = "catch" /\ Optional[cur] = c)
            => res[c].status = "error" /\ res[c].error = netMsg
    /\ RunEnded => display = "report" /\ Enabled \subseteq InvokedSet

\* what holds of the optional checkers: their faults are recorded, and a
\* run in which the topology checker does not throw goes on to the report
OptionalFaultIsolation ==
    /\ \A c \in thrown \cap OptionalSet :
         ~(pc = "catch" /\ Optional[cur] = c)
            => res[c].status = "error" /\ res[c].error = netMsg
    /\ RunEnded /\ "topology" \notin thrown
         => display = "report" /\ Enabled \subseteq InvokedSet

ItemStep(a, b) ==
    \/ a = b
    \/ a = "pending" /\ b = "testing"
    \/ a = "testing" /\ b \in Terminal

\* C2: the items of a checklist are created 'pending' and, for as long as
\* the run lasts, each step leaves an item alone or moves it from pending
\* to testing or from testing to success, warning or error; a terminal
\* item never changes again.
ChecklistLifecycle ==
    [][ IF pc = "resolving"
        THEN \A i \in 1..Len(items') : items'[i] = "pending"
        ELSE pc # "finally"
               => /\ Len(items') = Len(items)
                  /\ \A i \in 1..Len(items) : ItemStep(items[i], items'[i]) ]_vars

\* a run with an optional checker under way while the items before it are
\* terminal
WitnessChecklistLifecycle ==
    /\ pc = "status"
    /\ Len(items) >= 4
    /\ checkIndex = 3
    /\ \A i \in 1..3 : items[i] \in Terminal

\* C3: when a run has ended, every item of its checklist is terminal.
AllItemsTerminalAtEnd ==
    RunEnded => \A i \in 1..Len(items) : items[i] \in Terminal

\* C4: the invocations of a run are topology first and then the enabled
\* optional checkers in declaration order, each exactly once and no
\* disabled one; while the run lasts they are a prefix of that sequence.
FixedOrderOnce ==
    LET expected == << "topology" >> \o enabledFrom(flags, 1)
    IN  /\ Len(invoked) <= Len(expected)
        /\ invoked = SubSeq(expected, 1, Len(invoked))
        /\ RunEnded => invoked = expected

\* what holds of every run: order, no repetition, nothing disabled, and
\* every enabled checker when the topology checker did not throw
FixedOrderOnceUnlessAborted ==
    LET expected == << "topology" >> \o enabledFrom(flags, 1)
    IN  /\ Len(invoked) <= Len(expected)
        /\ invoked = SubSeq(expected, 1, Len(invoked))
        /\ RunEnded /\ "topology" \notin thrown => invoked = expected

\* C5: at most one checker of the run is outstanding, and a checker is
\* invoked only when no earlier one is still outstanding.
OneCheckerAtATime ==
    [][ /\ Cardinality(outstanding') <= 1
        /\ invoked' # invoked => outstanding = {} ]_vars

\* an optional checker is outstanding after the topology checker settled
WitnessOneCheckerAtATime ==
    /\ pc = "await"
    /\ Len(invoked) >= 3
    /\ outstanding = { invoked[Len(invoked)] }

headline(its) ==
    IF \E i \in 1..Len(its) : its[i] \in {"pending", "testing"} THEN Running
    ELSE IF \E i \in 1..Len(its) : its[i] = "error"
    THEN "Checks Complete (Some Issues Found)"
    ELSE IF \E i \in 1..Len(its) : its[i] = "warning"
    THEN "Checks Complete (Warnings Found)"
    ELSE "All Checks Complete"

\* C6: whenever a checklist exists its title is the headline of its items:
\* 'Running Checks...' while an item is pending or testing, then the error
\* headline if an item is 'error', else the warning headline if an item is
\* 'warning', else 'All Checks Complete'.
TitleIsHeadline == Len(items) > 0 => title = headline(items)

\* all items terminal, an error and a warning among them
WitnessTitleIsHeadline ==
    /\ Len(items) >= 3
    /\ \A i \in 1..Len(items) : items[i] \in Terminal
    /\ \E i \in 1..Len(items) : items[i] = "error"
    /\ \E i \in 1..Len(items) : items[i] = "warning"
    /\ title = "Checks Complete (Some Issues Found)"

sectionType(c) ==
    CASE c = "topology" -> "urls"
      [] c = "content"  -> "nonDeveloper"
      [] OTHER          -> c

sectionsOf(c) ==
    { i \in 1..Len(report.sections) : report.sections[i].type = sectionType(c) }

\* C7: a report exists only when no checker is outstanding and every
\* enabled checker has been invoked and has its result; it has exactly one
\* section for topology and for each enabled optional checker, none for a
\* disabled one, and one timestamp.
ReportComplete ==
    report # NoReport =>
        /\ outstanding = {}
        /\ InvokedSet = {"topology"} \cup Enabled
        /\ \A c \in Enabled : res[c].status \in Terminal
        /\ Cardinality(sectionsOf("topology")) = 1
        /\ \A c \in OptionalSet :
             Cardinality(sectionsOf(c)) = IF flags[c] THEN 1 ELSE 0
        /\ Len(report.sections) = 1 + Cardinality(Enabled)
        /\ report.timestamps = 1

\* a report of a run with some options on and some off
WitnessReportComplete ==
    /\ report # NoReport
    /\ flags["meta"] /\ flags["robots"] /\ ~flags["ssl"]
    /\ thrown # {}

carriesMessage(section, msg) ==
    \E i \in 1..Len(section.details) : section.details[i].a = msg

\* C8: in a report, the section of every checker whose request was
\* rejected or answered with a non-success status has status 'error', and
\* the section of a checker whose request was rejected carries the
\* message of the rejection in its detail lines.
FetchFailureInReport ==
    report # NoReport =>
        \A c \in Enabled : \A i \in sectionsOf(c) :
            /\ met[c] \in {"http", "reject"} => report.sections[i].status = "error"
            /\ met[c] = "reject" => carriesMessage(report.sections[i], netMsg)

(***************************************************************************)
(* Properties of UrlChecker.testUrl (SpecUrl).                             *)
(***************************************************************************)
\* C9: when testUrl has completed, results.tests has exactly the four
\* cells https-non-www, https-www, http-non-www and http-www.
FourCells == uPc = "done" => DOMAIN uRes.tests = Keys

toWwwApplies(tests) ==
    /\ redirectedAt(tests, "https-non-www")
    /\ accessibleAt(tests, "https-www")
    /\ ~redirectedAt(tests, "https-www")

toNonWwwApplies(tests) ==
    /\ redirectedAt(tests, "https-www")
    /\ accessibleAt(tests, "https-non-www")
    /\ ~redirectedAt(tests, "https-non-www")

BothWorkClassification ==
    (uPc \in {"ip", "done"} /\ ~toWwwApplies(uRes.tests)
                            /\ ~toNonWwwApplies(uRes.tests)) =>
        LET bothPlain == /\ accessibleAt(uRes.tests, "https-www")
                         /\ accessibleAt(uRes.tests, "https-non-www")
                         /\ ~redirectedAt(uRes.tests, "https-www")
                         /\ ~redirectedAt(uRes.tests, "https-non-www")
        IN  uRes.analysis.wwwRedirection =
                IF bothPlain THEN "both-work" ELSE "unclear"

\* the part of C11 the code keeps: 'both-work' exactly when both https
\* cells are reachable, redirected or not
BothWorkWhenBothReachable ==
    (uPc \in {"ip", "done"} /\ ~toWwwApplies(uRes.tests)
                            /\ ~toNonWwwApplies(uRes.tests)) =>
        uRes.analysis.wwwRedirection =
            IF accessibleAt(uRes.tests, "https-www")
                 /\ accessibleAt(uRes.tests, "https-non-www")
            THEN "both-work" ELSE "unclear"

(***************************************************************************)
(* Properties of RobotsChecker (SpecRobots).                               *)
(***************************************************************************)
RobotsParsed == rPc \in {"report", "done"} /\ rRes.status = "success"

\* the indices of the user-agent lines before line i
agentLinesBefore(lines, i) ==
    { j \in 1..(i - 1) : directiveOf(lines[j]) = "user-agent" }

Max(S) == CHOOSE m \in S : \A x \in S : x <= m

\* the indices, in file order, of the lines of directive dir that come
\* after at least one user-agent line
RECURSIVE scopedLines(_, _, _)
scopedLines(lines, dir, n) ==
    IF n = 0 THEN << >>
    ELSE IF directiveOf(lines[n]) = dir /\ agentLinesBefore(lines, n) # {}
         THEN Append(scopedLines(lines, dir, n - 1), n)
         ELSE scopedLines(lines, dir, n - 1)

\* one entry per such line, under the most recent user-agent value
expectedPaths(lines, dir) ==
    LET idx == scopedLines(lines, dir, Len(lines))
    IN  [ j \in 1..Len(idx) |->
            [userAgent |-> lines[Max(agentLinesBefore(lines, idx[j]))].v,
             path |-> lines[idx[j]].v] ]

\* C12: every allow/disallow line after at least one user-agent line gives
\* exactly one entry of allowedPaths/disallowedPaths, in file order, under
\* the value of the most recent preceding user-agent line; allow/disallow
\* lines before any user-agent line give no entry.
PathsFollowAgent ==
    RobotsParsed =>
        /\ rRes.analysis.disallowedPaths = expectedPaths(rIn, "disallow")
        /\ rRes.analysis.allowedPaths = expectedPaths(rIn, "allow")

\* the part of C12 the code keeps: the same, for bodies whose user-agent
\* lines all carry a value
PathsFollowNamedAgent ==
    (RobotsParsed /\ \A i \in 1..Len(rIn) :
                        directiveOf(rIn[i]) = "user-agent" => rIn[i].v # "") =>
        /\ rRes.analysis.disallowedPaths = expectedPaths(rIn, "disallow")
        /\ rRes.analysis.allowedPaths = expectedPaths(rIn, "allow")

\* the values of the lines of directive dir, without repetition, in order
\* of first appearance
RECURSIVE firstAppearances(_, _, _)
firstAppearances(lines, dir, n) ==
    IF n = 0 THEN << >>
    ELSE LET before == firstAppearances(lines, dir, n - 1)
         IN  IF directiveOf(lines[n]) = dir /\ ~includes(before, lines[n].v)
             THEN Append(before, lines[n].v)
             ELSE before

noDuplicates(seq) ==
    \A i, j \in 1..Len(seq) : seq[i] = seq[j] => i = j

\* C13: userAgents and sitemaps each hold no value twice and keep the
\* values in order of first appearance in the file.
OrderedUnique ==
    RobotsParsed =>
        /\ noDuplicates(rRes.analysis.userAgents)
        /\ noDuplicates(rRes.analysis.sitemaps)
        /\ rRes.analysis.userAgents =
               firstAppearances(rIn, "user-agent", Len(rIn))
        /\ rRes.analysis.sitemaps = firstAppearances(rIn, "sitemap", Len(rIn))

\* the part of C13 the code keeps: userAgents is ordered and unique
OrderedUniqueAgents ==
    RobotsParsed =>
        /\ noDuplicates(rRes.analysis.userAgents)
        /\ rRes.analysis.userAgents =
               firstAppearances(rIn, "user-agent", Len(rIn))

hasLine(section, line) ==
    \E i \in 1..Len(section.details) : section.details[i] = line

\* C20: a robots.txt fetched successfully whose body is empty or white
\* space only, the zero-length body included, gives a robots section of
\* status 'success' that holds the 'file is empty' line, and no error line.
EmptyRobotsReported ==
    (rPc = "done" /\ rRes.status = "success" /\ trimsToEmpty(rIn)) =>
        /\ rSec.status = "success"
        /\ hasLine(rSec, L("(This robots.txt file is empty)"))
        /\ \A i \in 1..Len(rSec.details) : rSec.details[i].t # "Error: "

\* the part of C20 the code keeps: the same, for bodies of at least one
\* character
BlankRobotsReported ==
    (rPc = "done" /\ rRes.status = "success" /\ trimsToEmpty(rIn)
        /\ contentLength(rIn) > 0) =>
        /\ rSec.status = "success"
        /\ hasLine(rSec, L("(This robots.txt file is empty)"))
        /\ \A i \in 1..Len(rSec.details) : rSec.details[i].t # "Error: "

(***************************************************************************)
(* Properties of AnalyticsChecker (SpecAnalytics).                         *)
(***************************************************************************)
PageAnalysed == aPc \in {"report", "done"} /\ aRes.status = "success"

\* the number of places of the page that the pattern of kind matches with
\* identifier id
rawCount(html, kind, id) ==
    Cardinality({ i \in 1..Len(html) : html[i] = Token(kind, id) })

\* the over-count warnings for identifier id among the issues
warningsFor(issues, t, id) ==
    { i \in 1..Len(issues) : issues[i].t = t /\ issues[i].a = id }

idsOf(kind) == { t.id : t \in { x \in PageTokens : x.kind = kind } }

\* C14: detectAnalytics emits a GA4 (GTM) over-count warning for an
\* identifier exactly when the raw match count of that identifier is
\* greater than 2; an identifier found once or twice never gets one,
\* whatever the counts of the other identifiers.
OverCountWarning ==
    PageAnalysed =>
        /\ \A id \in idsOf("ga4") :
             warningsFor(aRes.analysis.googleAnalytics.issues,
                         "Excessive GA4 ID counts: ", id) # {}
                <=> rawCount(aIn, "ga4", id) > 2
        /\ \A id \in idsOf("gtm") :
             warningsFor(aRes.analysis.googleTagManager.issues,
                         "Excessive GTM counts: ", id) # {}
                <=> rawCount(aIn, "gtm", id) > 2

\* a page that holds one GA4 identifier three times and another once: the
\* first is warned about and the second is not
WitnessOverCountWarning ==
    /\ PageAnalysed
    /\ rawCount(aIn, "ga4", "G-A") = 3
    /\ rawCount(aIn, "ga4", "G-B") = 1
    /\ Len(aRes.analysis.googleAnalytics.issues) = 1

\* C15: every issue that detectAnalytics records (a GA4 or GTM identifier
\* found more than twice, a Universal Analytics identifier) is among the
\* detail lines of the analytics section of the report.
IssuesInReport ==
    (aPc = "done" /\ aRes.status = "success") =>
        /\ \A i \in 1..Len(aRes.analysis.googleAnalytics.issues) :
             hasLine(aSec, aRes.analysis.googleAnalytics.issues[i])
        /\ \A i \in 1..Len(aRes.analysis.googleTagManager.issues) :
             hasLine(aSec, aRes.analysis.googleTagManager.issues[i])

\* what holds instead of C15: the issues are in the summary of the result,
\* which the report does not use when the analytics object is present
IssuesInSummary ==
    PageAnalysed =>
        /\ \A i \in 1..Len(aRes.analysis.googleAnalytics.issues) :
             includes(aRes.summary, aRes.analysis.googleAnalytics.issues[i])
        /\ \A i \in 1..Len(aRes.analysis.googleTagManager.issues) :
             includes(aRes.summary, aRes.analysis.googleTagManager.issues[i])

(***************************************************************************)
(* Properties of SSLChecker (SpecSsl).                                     *)
(***************************************************************************)
SslDone == sPc = "done"

\* C16: testSSLCertificate returns status 'error' exactly when the HTTPS
\* connectivity probe fails; when the site is reachable over HTTPS the
\* status is 'success' or 'warning', whichever certificate tiers succeed.
ErrorIffUnreachable ==
    SslDone =>
        /\ sRes.status = "error" <=> ~sConn.success
        /\ sConn.success => sRes.status \in {"success", "warning"}

\* a reachable site for which each of the three tiers failed
WitnessErrorIffUnreachable ==
    /\ SslDone
    /\ sConn.success
    /\ Len(sLog) = 6
    /\ ~sCert.success

\* C17: when the site is reachable over HTTPS, the status is 'warning'
\* exactly when the number of security headers found among the four is
\* zero; a count from 1 to 4 gives 'success'.
WarningIffNoHeader ==
    (SslDone /\ sConn.success) =>
        /\ sRes.status = "warning" <=> (sSec.success /\ sSec.securityScore = 0)
        /\ (sSec.success /\ sSec.securityScore \in 1..4) => sRes.status = "success"
        /\ sSec.success => sSec.securityScore = Cardinality(sSite)

\* the part of C17 the code keeps: the same, when the header analysis got
\* its answer
WarningIffNoHeaderAnalysed ==
    (SslDone /\ sConn.success /\ sSec.success) =>
        /\ sRes.status = "warning" <=> sSec.securityScore = 0
        /\ sSec.securityScore \in 1..4 => sRes.status = "success"
        /\ sSec.securityScore = Cardinality(sSite)

\* C18: the certificate tiers are started in the order 1, 2, 3, each only
\* after the one before has ended without success, none after a success;
\* tier 1 succeeds only on an answer that is OK, READY and has an endpoint.
TiersInOrder ==
    /\ \A i \in 1..Len(sLog) :
         IF sLog[i].e = "start"
         THEN IF i = 1 THEN sLog[i].tier = 1
              ELSE /\ sLog[i - 1].e = "end"
                   /\ ~sLog[i - 1].success
                   /\ sLog[i].tier = sLog[i - 1].tier + 1
         ELSE i > 1 /\ sLog[i - 1] = Started(sLog[i].tier)
    /\ \A i \in 1..Len(sLog) :
         (sLog[i].e = "end" /\ sLog[i].tier = 1 /\ sLog[i].success)
            => sApi.k = "answer" /\ sApi.ok /\ sApi.status = "READY"
                 /\ sApi.endpoints >= 1
    /\ (SslDone /\ sConn.success) =>
         /\ Len(sLog) > 0
         /\ sLog[Len(sLog)].e = "end"
         /\ sLog[Len(sLog)].success \/ sLog[Len(sLog)].tier = 3

\* the second tier answered after the first had failed, and the third was
\* never started
WitnessTiersInOrder ==
    /\ SslDone
    /\ sLog = << Started(1), Ended(1, FALSE), Started(2), Ended(2, TRUE) >>

(***************************************************************************)
(* Properties of NonDeveloperChecker (SpecContent).                        *)
(***************************************************************************)
ContentAnalysed == nPc \in {"report", "done"} /\ nRes.status # "error"

\* the link points, with an absolute or protocol-relative URL, to a known
\* social platform or to a subdomain of one
toKnownPlatform(link) ==
    /\ link.form \in {"abs", "protocolRelative"}
    /\ \E i \in 1..Len(socialDomains) :
         \/ link.host = socialDomains[i]
         \/ /\ Len(link.host) > Len(socialDomains[i])
            /\ \A k \in 1..Len(socialDomains[i]) :
                 link.host[Len(link.host) - Len(socialDomains[i]) + k]
                    = socialDomains[i][k]

platformLinks(page) ==
    { i \in 1..Len(page.links) : toKnownPlatform(page.links[i]) }

\* the page with target="_blank" and rel="noopener" on every link
secured(page) ==
    [page EXCEPT !.links =
        [ i \in 1..Len(page.links) |->
            [page.links[i] EXCEPT !.target = "_blank", !.rel = "noopener"] ]]

\* C19: the social-links sub-check passes exactly when a link to a known
\* social platform is found; target="_blank" and rel="noopener" only add
\* advisory issues (two for a link that lacks both) and change neither the
\* outcome of the sub-check nor the overall status.
SocialLinksGate ==
    ContentAnalysed =>
        LET check == nRes.analysis.socialLinks
            found == platformLinks(nIn)
            noTarget == { i \in found : nIn.links[i].target # "_blank" }
            noRel    == { i \in found : nIn.links[i].rel # "noopener" }
        IN  /\ check.found <=> found # {}
            /\ evaluated("socialLinks", check) =
                   IF found # {} THEN "passed" ELSE "failed"
            /\ found # {} =>
                   Len(check.issues) = (IF noTarget # {} THEN 1 ELSE 0)
                                         + (IF noRel # {} THEN 1 ELSE 0)
            /\ (noTarget \cap noRel) # {} => Len(check.issues) = 2
            /\ nRes.status = analyzeContent(secured(nIn)).status
            /\ check.found = analyzeContent(secured(nIn)).analysis.socialLinks.found

\* a page that passes on copyright and fonts and whose one social link has
\* neither attribute: two issues, and the overall status is 'success'
WitnessSocialLinksGate ==
    /\ nPc = "done"
    /\ nRes.status = "success"
    /\ Len(nIn.links) = 1
    /\ nIn.links[1].target = "none" /\ nIn.links[1].rel = "none"
    /\ nRes.analysis.socialLinks.found
    /\ Len(nRes.analysis.socialLinks.issues) = 2

(***************************************************************************)
(* Properties of UrlChecker.testSingleUrl (SpecProbe).                     *)
(***************************************************************************)
\* C21: a probe whose primary request throws is retried exactly once, in
\* no-cors mode; the cell is unreachable exactly when both requests threw;
\* a cell the retry established has redirected = false and its own URL as
\* final URL; no URL is requested more than twice.
RetryOnce ==
    /\ Len(pLog) <= 2
    /\ \A i \in 1..Len(pLog) :
         pLog[i].mode = IF i = 1 THEN "follow" ELSE "no-cors"
    /\ Len(pLog) = 2 => pLog[1].threw
    /\ pPc = "done" =>
         /\ Len(pLog) >= 1
         /\ pLog[1].threw <=> Len(pLog) = 2
         /\ ~pCell.accessible <=> (Len(pLog) = 2 /\ pLog[1].threw /\ pLog[2].threw)
         /\ (Len(pLog) = 2 /\ ~pLog[2].threw) =>
               /\ pCell.accessible
               /\ ~pCell.redirected
               /\ pCell.finalUrl = pIn.url

\* the primary request threw and the retry was answered
WitnessRetryOnce ==
    /\ pPc = "done"
    /\ pLog = << Request("follow", TRUE), Request("no-cors", FALSE) >>
    /\ pCell.accessible

(***************************************************************************)
(* Properties of UrlChecker.checkCloudflare (SpecUrl).                     *)
(***************************************************************************)
\* the dotted groups of an address or of a range entry
RECURSIVE groups(_)
groups(str) ==
    IF str = << >> THEN << << >> >>
    ELSE LET rest == groups(Tail(str))
         IN  IF Head(str) = "." THEN << << >> >> \o rest
             ELSE << <<Head(str)>> \o rest[1] >> \o Tail(rest)

leadingGroups(ip, range) ==
    LET g == groups(ip)
        r == groups(range)
    IN  /\ Len(r) <= Len(g)
        /\ \A i \in 1..Len(r) : g[i] = r[i]

inRangeTable(ip) ==
    \E i \in 1..Len(cloudflareRanges) : leadingGroups(ip, cloudflareRanges[i])

\* C22: the address the lookup answered with is classified as Cloudflare
\* exactly when its leading dotted groups equal, group by group, one entry
\* of the range table.
GroupwiseRangeMatch ==
    (uPc = "done" /\ uRes.ipAddress \in Ips) =>
        (getIpAddress([k |-> "answer", ip |-> uRes.ipAddress]).isCloudflare
            <=> inRangeTable(uRes.ipAddress))

(***************************************************************************)
(* Properties of the crawl-delay directive (SpecRobots).                   *)
(***************************************************************************)
\* the lines of a body without line i
withoutLine(lines, i) == SubSeq(lines, 1, i - 1) \o SubSeq(lines, i + 1, Len(lines))

\* a crawl-delay line whose value is not a number
badDelayLine(line) == directiveOf(line) = "crawl-delay" /\ parseInt(line.v).nan

\* C23: a crawl-delay line whose value is not numeric is treated as absent:
\* the crawlDelay of the analysis is the one of the same file without that
\* line, so a numeric crawl-delay seen earlier is kept.
BadDelayIgnored ==
    RobotsParsed =>
        \A i \in 1..Len(rIn) :
            badDelayLine(rIn[i]) =>
                rRes.analysis.crawlDelay
                    = analyzeRobotsContent(withoutLine(rIn, i)).crawlDelay

(***************************************************************************)
(* Properties of the identifier lists (SpecAnalytics).                     *)
(***************************************************************************)
\* C24: for every page, each identifier list detectAnalytics reports (GA
\* trackingIds, GTM containerIds, Facebook pixelIds, Hotjar siteIds)
\* contains no value twice.
IdentifiersUnique ==
    PageAnalysed =>
        /\ noDuplicates(aRes.analysis.googleAnalytics.trackingIds)
        /\ noDuplicates(aRes.analysis.googleTagManager.containerIds)
        /\ noDuplicates(aRes.analysis.facebookPixel.pixelIds)
        /\ noDuplicates(aRes.analysis.hotjar.siteIds)

\* the same for the two Google services alone
GoogleIdentifiersUnique ==
    PageAnalysed =>
        /\ noDuplicates(aRes.analysis.googleAnalytics.trackingIds)
        /\ noDuplicates(aRes.analysis.googleTagManager.containerIds)

(***************************************************************************)
(* Properties of SSLChecker.tryAlternativeSSLCheck (SpecSsl).              *)
(***************************************************************************)
\* C25: the grade of the second certificate tier depends on which of the
\* four security headers are present: for the response the tier graded
\* there is a response with other headers that it grades differently.
GradeFromHeaders ==
    (sCert.tier = 2 /\ sCert.success) =>
        \E present \in SUBSET HeaderSet :
            /\ present # sSite
            /\ tryAlternativeSSLCheck(TRUE, present).dataGrade # sCert.dataGrade

\* the second tier reports the headers it read
HeadersOfSecondTier ==
    (sCert.tier = 2 /\ sCert.success) => sCert.securityHeaders = sSite

(***************************************************************************)
(* Properties of findFirstValidUrl (SpecPopup).                            *)
(***************************************************************************)
\* a request that was answered OK or with 401, 403, 500 or 503
accepted(ping) ==
    /\ ping.k = "answer"
    /\ ping.status \in (200..299) \cup {401, 403, 500, 503}

\* C26: findFirstValidUrl requests the candidates one at a time in list
\* order and stops at the first that answers OK or 401, 403, 500 or 503: it
\* returns that URL, requests no candidate after it, skips a candidate whose
\* request throws or times out, and returns null exactly when no candidate
\* qualifies.
FirstValidUrl ==
    /\ Len(fLog) <= Len(fUrls)
    /\ \A i \in 1..Len(fLog) : fLog[i].i = i
    /\ \A i \in 1..(Len(fLog) - 1) : ~accepted(fLog[i])
    /\ fPc = "done" =>
         IF \E i \in 1..Len(fLog) : accepted(fLog[i])
         THEN fRet = fUrls[Len(fLog)]
         ELSE fRet = "null" /\ Len(fLog) = Len(fUrls)

\* the first candidate timed out, the second answered 404 and the third,
\* with 503, was returned
WitnessFirstValidUrl ==
    /\ fPc = "done"
    /\ Len(fLog) = 3
    /\ fLog[1].k = "timeout"
    /\ fLog[2] = Pinged(2, "answer", 404)
    /\ fLog[3] = Pinged(3, "answer", 503)
    /\ fRet = fUrls[3]

(***************************************************************************)
(* Properties of the checklist of a run (Spec).                            *)
(***************************************************************************)
\* the positions of the run at which it calls updateCheckItem
TransitionPcs ==
    {"topoTesting0", "topoTesting1", "topoStatus0", "topoStatus1", "testing",
     "status", "catch"}

\* the checklist of the run is on display
ChecklistBuilt == pc \notin {"idle", "resolving"}

enabledCheckers == {"topology"} \cup { c \in OptionalSet : flags[c] }

\* the step changes the status of exactly one item
OneItemChanged ==
    /\ Len(items') = Len(items)
    /\ Cardinality({ i \in 1..Len(items) : items'[i] # items[i] }) = 1

\* each status transition changes exactly one item of the checklist
OneItemPerTransition == [][(pc \in TransitionPcs) => OneItemChanged]_vars

\* C27: the checklist of a run has exactly one item per check: one for the
\* topology checker and one for each enabled optional checker; and each
\* status transition changes the status of exactly one item and leaves the
\* other items as they are.
OneItemPerChecker ==
    /\ [](ChecklistBuilt => Len(items) = Cardinality(enabledCheckers))
    /\ [][(pc \in TransitionPcs) => OneItemChanged]_vars

(***************************************************************************)
(* Properties of the audit target (Spec).                                  *)
(***************************************************************************)
\* UrlChecker.testUrl: new URL(baseUrl).hostname.replace(/^www\./, '')
baseDomain(baseUrl) == stripWww(baseUrl.host)

\* testUrl has returned its results to the run
TopologyReturned == testResults # NoTestResults

\* C28: all checkers of a run probe the same normalized target: the host the
\* topology checker derives its four URLs from is the host the robots,
\* analytics, SSL, meta and content checkers are given (cleanDomain), and it
\* is the input domain with one leading www. stripped.
SameTarget ==
    TopologyReturned =>
        /\ testResults.url = Url("https", cleanDomain)
        /\ baseDomain(testResults.url) = cleanDomain
        /\ cleanDomain = stripWww(currentDomain)

\* the same for an input domain with at most one leading www.
SameTargetOneWww ==
    (TopologyReturned /\ ~startsWithWww(stripWww(currentDomain))) =>
        /\ testResults.url = Url("https", cleanDomain)
        /\ baseDomain(testResults.url) = cleanDomain
        /\ cleanDomain = stripWww(currentDomain)

(***************************************************************************)
(* Properties of the click handlers (SpecClicks).                          *)
(***************************************************************************)
runsInProgress == { i \in Handlers : hPc[i] = "running" }

\* C29: at most one audit run is in progress at any time, under every
\* interleaving of the clicks with the tab lookup, and the buttons are not
\* enabled while a run is in progress.
OneRunAtATime ==
    /\ Cardinality(runsInProgress) <= 1
    /\ runsInProgress # {} => hDisabled

\* the same of one handler on its own: its run is bracketed by the disabling
\* and the re-enabling of the buttons
OneRunPerHandler ==
    \A i \in Handlers :
        Cardinality({ k \in 1..Len(hLog) : hLog[k] = RunEvent("start", i) })
            - Cardinality({ k \in 1..Len(hLog) : hLog[k] = RunEvent("end", i) })
                = IF hPc[i] = "running" THEN 1 ELSE 0

(***************************************************************************)
(* Properties of the section statuses (Spec).                              *)
(***************************************************************************)
\* the checklist items of checker c: the first two for topology, then one
\* per enabled optional checker in the order of Optional
itemsOf(c) ==
    IF c = "topology" THEN {1, 2}
    ELSE { 2 + Cardinality({ j \in 1..Len(Optional) :
                                /\ flags[Optional[j]]
                                /\ \E k \in j..Len(Optional) : Optional[k] = c }) }

\* error over warning over success
mostSevere(statuses) ==
    IF "error" \in statuses THEN "error"
    ELSE IF "warning" \in statuses THEN "warning"
    ELSE "success"

\* C30: in the report of a completed run, the status of every checker's
\* section is the most severe terminal status among that checker's
\* checklist items; for a checker with one item the two are equal.
SectionMatchesItems ==
    report # NoReport =>
        \A c \in {"topology"} \cup { o \in OptionalSet : flags[o] } :
            /\ \A i \in itemsOf(c) : i \in 1..Len(items) /\ items[i] \in Terminal
            /\ \A k \in sectionsOf(c) :
                 report.sections[k].status = mostSevere({ items[i] : i \in itemsOf(c) })
            /\ sectionsOf(c) # {}

\* a report whose topology section is 'warning' over the items 'success' and
\* 'warning', and whose SSL section is 'warning' like its item
WitnessSectionMatchesItems ==
    /\ report # NoReport
    /\ items[1] = "success" /\ items[2] = "warning"
    /\ \E k \in sectionsOf("topology") : report.sections[k].status = "warning"
    /\ flags["ssl"] /\ flags["robots"]
    /\ \E k \in sectionsOf("ssl") : report.sections[k].status = "warning"
    /\ \E k \in sectionsOf("robots") : report.sections[k].status = "error"

====
